---------------------------- MODULE Spec2Model ----------------------------
(***************************************************************************)
(* A model of the phase-1 (powers of tau) accumulator engine of            *)
(* snark-setup: the ceremony descriptor and its chunking arithmetic        *)
(* (powersoftau/src/parameters.rs) and the batched accumulator             *)
(* (powersoftau/src/raw/raw_accumulator.rs): iter_chunk, contribute,       *)
(* verify_pok_and_correctness, verify_ratios and combine.                  *)
(*                                                                         *)
(* Curve points are modelled by their discrete logarithm.  A point of G1   *)
(* or G2 is a number p in 0 .. 2*FieldOrder-1: p % FieldOrder is the       *)
(* exponent of the prime-order component (0: the identity) and             *)
(* p \div FieldOrder is a component of order 2 outside the prime-order     *)
(* subgroup.  A buffer is modelled at the granularity of one element slot; *)
(* byte offsets are computed separately by the split operators.            *)
(***************************************************************************)
EXTENDS Integers, Sequences, FiniteSets, TLC

\* ------------------------------------------------------------------ bounds
MaxPower == 2
MaxBatchSize == 5
MaxChunkSize == 4
MaxContributions == 2
MaxChunkIndex == 8

\* ------------------------------------------------------- curve arithmetic
\* The order of the scalar field (and of the prime-order subgroups).
FieldOrder == 5

Min(a, b) == IF a < b THEN a ELSE b
Max(a, b) == IF a > b THEN a ELSE b

\* A slot of a freshly created (zero filled) file that no operation wrote.
Unwritten == 0 - 1

Scalars == 0..(FieldOrder - 1)
NonZeroScalars == 1..(FieldOrder - 1)
SubgroupPoints == 0..(FieldOrder - 1)
Points == 0..(2 * FieldOrder - 1)

\* prime_subgroup_generator() of G1 and of G2
G1One == 1
G2One == 1

is_zero(p) == p = 0

\* p.mul(s): scalar multiplication of a point
Mul(p, s) ==
  IF p = Unwritten THEN Unwritten
  ELSE (((p % FieldOrder) * s) % FieldOrder)
       + FieldOrder * (((p \div FieldOrder) * s) % 2)

\* p.mul(MODULUS).is_zero(): membership in the prime-order subgroup
in_prime_order_subgroup(p) == p # Unwritten /\ is_zero(Mul(p, FieldOrder))

\* tau.pow([i])
RECURSIVE Pow(_, _)
Pow(x, n) ==
  IF n = 0 THEN 1
  ELSE LET h == Pow(x, n \div 2)
       IN IF n % 2 = 0 THEN (h * h) % FieldOrder
          ELSE (((h * h) % FieldOrder) * x) % FieldOrder

\* E::pairing(a, b), as the exponent of the generator of the target group:
\* only the prime-order components pair non-trivially.
pairing(a, b) == ((a % FieldOrder) * (b % FieldOrder)) % FieldOrder

\* check_same_ratio(g1, g2): e(g1.0, g2.1) = e(g1.1, g2.0)
check_same_ratio(g1, g2) ==
  /\ g1[1] # Unwritten /\ g1[2] # Unwritten
  /\ g2[1] # Unwritten /\ g2[2] # Unwritten
  /\ pairing(g1[1], g2[2]) = pairing(g1[2], g2[1])

\* ------------------------------------------------------ curve descriptor
\* CurveParams::new(): uncompressed and compressed element sizes, in bytes.
CurveNames == {"Bls12_377", "BW6_761"}

CurveParams(name) ==
  IF name = "Bls12_377"
  THEN [g1 |-> 96, g2 |-> 192, g1_compressed |-> 48, g2_compressed |-> 96]
  ELSE [g1 |-> 192, g2 |-> 192, g1_compressed |-> 96, g2_compressed |-> 96]

g1_size(curve, compression) ==
  IF compression = "Yes" THEN curve.g1_compressed ELSE curve.g1

g2_size(curve, compression) ==
  IF compression = "Yes" THEN curve.g2_compressed ELSE curve.g2

\* ------------------------------------------------------- chunking math
\* a - b on usize.  A negative result stands for the underflow: a panic
\* ("attempt to subtract with overflow") in a build with overflow checks,
\* the wrapped value 2^64 + (a - b) in a build without them.
usize_sub(a, b) == a - b

underflowed(x) == x < 0

\* chunk_element_sizes: <<g1_els_in_chunk, other_els_in_chunk>>
chunk_element_sizes(batch_size, chunk_index, powers_g1_length, powers_length) ==
  LET start == chunk_index * batch_size
      end == (chunk_index + 1) * batch_size
      g1_els_in_chunk ==
        IF end > powers_g1_length
        THEN usize_sub(powers_g1_length, start)
        ELSE usize_sub(end, start)
      other_els_in_chunk ==
        IF end > powers_length /\ start >= powers_length THEN 0
        ELSE IF end > powers_length THEN usize_sub(powers_length, start)
        ELSE usize_sub(end, start)
  IN <<g1_els_in_chunk, other_els_in_chunk>>

\* 1 << size
RECURSIVE Pow2(_)
Pow2(size) == IF size = 0 THEN 1 ELSE 2 * Pow2(size - 1)

\* Mutant: the size of the two single tau G1 elements is left out.
new_with_curve_short(chunk_index, curve, size, batch_size) ==
  LET hash_size == 64
      powers_length == Pow2(size)
      powers_g1_length == (2 * powers_length) - 1
      els == chunk_element_sizes(batch_size, chunk_index,
                                 powers_g1_length, powers_length)
      public_key_size == 3 * curve.g2 + 6 * curve.g1
  IN [chunk_index |-> chunk_index, curve |-> curve, size |-> size,
      batch_size |-> batch_size,
      accumulator_size |->
        els[1] * curve.g1 + els[2] * (curve.g2 + (curve.g1 * 2))
        + curve.g2 + 2 * curve.g2 + hash_size,
      public_key_size |-> public_key_size,
      contribution_size |->
        els[1] * curve.g1_compressed
        + els[2] * (curve.g2_compressed + (curve.g1_compressed * 2))
        + curve.g2_compressed + 2 * curve.g1_compressed
        + 2 * curve.g2_compressed + hash_size + public_key_size,
      hash_size |-> hash_size,
      powers_length |-> powers_length,
      powers_g1_length |-> powers_g1_length]

\* CeremonyParams::new_with_curve
new_with_curve(chunk_index, curve, size, batch_size) ==
  LET hash_size == 64
      powers_length == Pow2(size)
      powers_g1_length == (2 * powers_length) - 1
      els == chunk_element_sizes(batch_size, chunk_index,
                                 powers_g1_length, powers_length)
      accumulator_size ==
        els[1] * curve.g1
        + els[2] * (curve.g2 + (curve.g1 * 2))
        + curve.g2
        + 2 * curve.g1
        + 2 * curve.g2
        + hash_size
      public_key_size == 3 * curve.g2 + 6 * curve.g1
      contribution_size ==
        els[1] * curve.g1_compressed
        + els[2] * (curve.g2_compressed + (curve.g1_compressed * 2))
        + curve.g2_compressed
        + 2 * curve.g1_compressed
        + 2 * curve.g2_compressed
        + hash_size
        + public_key_size
  IN [chunk_index |-> chunk_index, curve |-> curve, size |-> size,
      batch_size |-> batch_size,
      accumulator_size |-> accumulator_size,
      public_key_size |-> public_key_size,
      contribution_size |-> contribution_size,
      hash_size |-> hash_size,
      powers_length |-> powers_length,
      powers_g1_length |-> powers_g1_length]

\* Mutant: the length of an uncompressed buffer counts the public key.
get_length_with_public_key(params, compressed) ==
  IF compressed = "Yes"
  THEN usize_sub(params.contribution_size, params.public_key_size)
  ELSE params.accumulator_size + params.public_key_size

\* CeremonyParams::get_length
get_length(params, compressed) ==
  IF compressed = "Yes"
  THEN usize_sub(params.contribution_size, params.public_key_size)
  ELSE params.accumulator_size

\* CeremonyParams::specialize_to_chunk(chunk_index) of the descriptor of
\* parameters.rs: a copy with the chunk index replaced, its sizes kept.
specialize_to_chunk_index(params, chunk_index) ==
  [params EXCEPT !.chunk_index = chunk_index]

\* ------------------------------------------- the engine's descriptor
\* The descriptor the accumulator engine works with: the fields above plus
\* the contribution mode and the chunk size (CeremonyParams::new as the
\* powersoftau binary calls it).
ContributionModes == {"Full", "Chunked"}

CeremonyParams(contribution_mode, chunk_index, chunk_size, size, batch_size) ==
  [contribution_mode |-> contribution_mode,
   chunk_index |-> chunk_index,
   chunk_size |-> chunk_size,
   size |-> size,
   batch_size |-> batch_size,
   hash_size |-> 64,
   powers_length |-> Pow2(size),
   powers_g1_length |-> (2 * Pow2(size)) - 1]

\* parameters.specialize_to_chunk(contribution_mode, chunk_index, chunk_size)
specialize_to_chunk(parameters, contribution_mode, chunk_index, chunk_size) ==
  [parameters EXCEPT !.contribution_mode = contribution_mode,
                     !.chunk_index = chunk_index,
                     !.chunk_size = chunk_size]

\* parameters.chunk_element_sizes(): the element counts of the view the
\* descriptor stands for, the whole arrays in Full mode.
params_chunk_element_sizes(parameters) ==
  IF parameters.contribution_mode = "Full"
  THEN <<parameters.powers_g1_length, parameters.powers_length>>
  ELSE chunk_element_sizes(parameters.chunk_size, parameters.chunk_index,
                           parameters.powers_g1_length, parameters.powers_length)

\* ------------------------------------------------------------ iter_chunk
\* The index range <<min, max>> iter_chunk walks.
iter_chunk_range(parameters) ==
  IF parameters.contribution_mode = "Chunked"
  THEN <<parameters.chunk_index * parameters.chunk_size,
         Min((parameters.chunk_index + 1) * parameters.chunk_size,
             parameters.powers_g1_length)>>
  ELSE <<0, parameters.powers_g1_length>>

\* Mutant: successive windows do not overlap (the window ends after its
\* last index).
iter_chunk_windows_no_overlap(parameters) ==
  LET min == iter_chunk_range(parameters)[1]
      max == iter_chunk_range(parameters)[2]
      step == parameters.batch_size - 1
      n == IF max <= min THEN 0 ELSE ((max - min) + step - 1) \div step
  IN [j \in 1..n |->
        LET start == min + (j - 1) * step
            last == Min(start + step, max) - 1
        IN <<start, last + 1>>]

\* The windows <<start, end>> iter_chunk hands to its action, in order:
\* (min..max).chunks(batch_size - 1), each group widened by one index unless
\* it holds the last index of the range.
iter_chunk_windows(parameters) ==
  LET min == iter_chunk_range(parameters)[1]
      max == iter_chunk_range(parameters)[2]
      step == parameters.batch_size - 1
      n == IF max <= min THEN 0 ELSE ((max - min) + step - 1) \div step
  IN [j \in 1..n |->
        LET start == min + (j - 1) * step
            last == Min(start + step, max) - 1
        IN IF last > start
           THEN \* MinMaxResult::MinMax(start, end)
                <<start, IF last >= max - 1 THEN last + 1 ELSE last + 2>>
           ELSE \* MinMaxResult::OneElement(start)
                <<start, IF start >= max - 1 THEN start + 1 ELSE start + 2>>]

\* The end index used for tauG2, alphaG1 and betaG1 in a window that starts
\* below powers_length.
other_end(parameters, start, end) ==
  IF start + parameters.batch_size > parameters.powers_length
  THEN parameters.powers_length
  ELSE end

\* Index relative to the view: start - chunk_index * chunk_size in Chunked
\* mode.
to_chunk(parameters, i) ==
  IF parameters.contribution_mode = "Chunked"
  THEN usize_sub(i, parameters.chunk_index * parameters.chunk_size)
  ELSE i

\* ---------------------------------------------------------------- buffers
\* An accumulator buffer, split into its five regions [TauG1, TauG2,
\* AlphaG1, BetaG1, BetaG2]; each array is a function on 0 .. n-1.
Array(n, v) == [i \in 0..(n - 1) |-> v]

Len0(a) == Cardinality(DOMAIN a)

\* A freshly created buffer of the descriptor's view, nothing written yet.
fresh_buffer(parameters) ==
  LET els == params_chunk_element_sizes(parameters)
  IN [tau_g1 |-> Array(els[1], Unwritten),
      tau_g2 |-> Array(els[2], Unwritten),
      alpha_g1 |-> Array(els[2], Unwritten),
      beta_g1 |-> Array(els[2], Unwritten),
      beta_g2 |-> Unwritten]

\* read_element / read_batch with a CheckForCorrectness: the element is
\* refused when a check is asked for and the point is zero or outside the
\* prime-order subgroup.
read_ok(p, check) ==
  \/ check = "No"
  \/ (p # Unwritten /\ ~is_zero(p) /\ in_prime_order_subgroup(p))

\* generate_powers_of_tau(tau, start, end): [tau^start, .., tau^(end-1)]
generate_powers_of_tau(tau, start, end) ==
  [i \in 0..(end - start - 1) |-> Pow(tau, start + i)]

\* batch_exp(bases, exps, coeff): bases[i] <- bases[i] * exps[i] (* coeff)
batch_exp(bases, exps, coeff) ==
  [i \in DOMAIN bases |-> Mul(bases[i], (exps[i] * coeff) % FieldOrder)]

\* Mutant: apply_powers without the coefficient: the elements are raised to
\* the powers only.
apply_powers_without_coeff(output, input, check, start, end, powers, coeff) ==
  IF \/ start > end \/ end > Len0(input) \/ end > Len0(output)
     \/ end - start > Len0(powers)
     \/ \E i \in start..(end - 1) : ~read_ok(input[i], check)
  THEN [panic |-> TRUE, out |-> output]
  ELSE LET elements == [i \in 0..(end - start - 1) |-> input[start + i]]
           exps == [i \in 0..(end - start - 1) |-> powers[i]]
           written == batch_exp(elements, exps, 1)
       IN [panic |-> FALSE,
           out |-> [i \in DOMAIN output |->
                      IF start <= i /\ i < end THEN written[i - start]
                      ELSE output[i]]]

\* apply_powers: read input[start..end), raise the elements to
\* powers[..end-start] (and coeff), write them to output[start..end).
\* coeff = 1 stands for None.  A slice out of range or a failed read or
\* batch_exp is a panic of the caller (it expects the result).
apply_powers(output, input, check, start, end, powers, coeff) ==
  IF \/ start > end \/ end > Len0(input) \/ end > Len0(output)
     \/ end - start > Len0(powers)
     \/ \E i \in start..(end - 1) : ~read_ok(input[i], check)
  THEN [panic |-> TRUE, out |-> output]
  ELSE LET elements == [i \in 0..(end - start - 1) |-> input[start + i]]
           exps == [i \in 0..(end - start - 1) |-> powers[i]]
           written == batch_exp(elements, exps, coeff)
       IN [panic |-> FALSE,
           out |-> [i \in DOMAIN output |->
                      IF start <= i /\ i < end THEN written[i - start]
                      ELSE output[i]]]

\* Mutant: the powers of a window are counted from the window's index in
\* the view instead of its index in the whole accumulator.
contribute_window_local_powers(parameters, key, input, check, acc, start, end) ==
  LET start_chunk == to_chunk(parameters, start)
      end_chunk == to_chunk(parameters, end)
      powers == generate_powers_of_tau(key.tau, start_chunk, end_chunk)
      t1 == apply_powers(acc.buffer.tau_g1, input.tau_g1, check,
                         start_chunk, end_chunk, powers, 1)
      others == start < parameters.powers_length
      oend == other_end(parameters, start, end)
      ostart_chunk == to_chunk(parameters, start)
      oend_chunk == to_chunk(parameters, oend)
      t2 == apply_powers(acc.buffer.tau_g2, input.tau_g2, check,
                         ostart_chunk, oend_chunk, powers, 1)
      a1 == apply_powers(acc.buffer.alpha_g1, input.alpha_g1, check,
                         ostart_chunk, oend_chunk, powers, key.alpha)
      b1 == apply_powers(acc.buffer.beta_g1, input.beta_g1, check,
                         ostart_chunk, oend_chunk, powers, key.beta)
      panic == t1.panic \/ (others /\ (t2.panic \/ a1.panic \/ b1.panic))
  IN [status |-> IF panic THEN "Panic" ELSE "Ok",
      buffer |-> [tau_g1 |-> t1.out,
                  tau_g2 |-> IF others THEN t2.out ELSE acc.buffer.tau_g2,
                  alpha_g1 |-> IF others THEN a1.out ELSE acc.buffer.alpha_g1,
                  beta_g1 |-> IF others THEN b1.out ELSE acc.buffer.beta_g1,
                  beta_g2 |-> acc.buffer.beta_g2]]

\* The action contribute hands to iter_chunk, for the window <<start, end>>:
\* the state is [status, buffer].
contribute_window(parameters, key, input, check, acc, start, end) ==
  LET start_chunk == to_chunk(parameters, start)
      end_chunk == to_chunk(parameters, end)
      powers == generate_powers_of_tau(key.tau, start, end)
      t1 == apply_powers(acc.buffer.tau_g1, input.tau_g1, check,
                         start_chunk, end_chunk, powers, 1)
      others == start < parameters.powers_length
      oend == other_end(parameters, start, end)
      ostart_chunk == to_chunk(parameters, start)
      oend_chunk == to_chunk(parameters, oend)
      t2 == apply_powers(acc.buffer.tau_g2, input.tau_g2, check,
                         ostart_chunk, oend_chunk, powers, 1)
      a1 == apply_powers(acc.buffer.alpha_g1, input.alpha_g1, check,
                         ostart_chunk, oend_chunk, powers, key.alpha)
      b1 == apply_powers(acc.buffer.beta_g1, input.beta_g1, check,
                         ostart_chunk, oend_chunk, powers, key.beta)
      panic == t1.panic \/ (others /\ (t2.panic \/ a1.panic \/ b1.panic))
  IN [status |-> IF panic THEN "Panic" ELSE "Ok",
      buffer |-> [tau_g1 |-> t1.out,
                  tau_g2 |-> IF others THEN t2.out ELSE acc.buffer.tau_g2,
                  alpha_g1 |-> IF others THEN a1.out ELSE acc.buffer.alpha_g1,
                  beta_g1 |-> IF others THEN b1.out ELSE acc.buffer.beta_g1,
                  beta_g2 |-> acc.buffer.beta_g2]]

\* iter_chunk over the windows from the j-th on: the first failure ends it.
RECURSIVE contribute_windows(_, _, _, _, _, _, _)
contribute_windows(parameters, key, input, check, acc, windows, j) ==
  IF j > Len(windows) \/ acc.status # "Ok" THEN acc
  ELSE contribute_windows(parameters, key, input, check,
         contribute_window(parameters, key, input, check, acc,
                           windows[j][1], windows[j][2]),
         windows, j + 1)

\* contribute(input, output, key, parameters): [status, buffer], the buffer
\* being the output as the call leaves it.
contribute(input, check, output, key, parameters) ==
  IF ~read_ok(input.beta_g2, check)
  THEN [status |-> "Err", buffer |-> output]
  ELSE contribute_windows(parameters, key, input, check,
         [status |-> "Ok",
          buffer |-> [output EXCEPT !.beta_g2 = Mul(input.beta_g2, key.beta)]],
         iter_chunk_windows(parameters), 1)

\* ---------------------------------------------------------------- keypair
\* compute_g2_s(digest, g1_s, g1_s_x, personalization): a hash to a
\* non-zero point of the prime-order subgroup of G2.
compute_g2_s(digest, g1_s, g1_s_x, personalization) ==
  1 + ((digest + g1_s + 2 * g1_s_x + personalization) % (FieldOrder - 1))

\* The public key of a private key [tau, alpha, beta] for a digest: the
\* pairs (s, s*x) in G1 and the points g2_s_x * x in G2.
public_key(key, digest) ==
  LET pair(s, x) == <<s, Mul(s, x)>>
      t == pair(2, key.tau)
      a == pair(3, key.alpha)
      b == pair(4, key.beta)
  IN [tau_g1 |-> t, alpha_g1 |-> a, beta_g1 |-> b,
      tau_g2 |-> Mul(compute_g2_s(digest, t[1], t[2], 0), key.tau),
      alpha_g2 |-> Mul(compute_g2_s(digest, a[1], a[2], 1), key.alpha),
      beta_g2 |-> Mul(compute_g2_s(digest, b[1], b[2], 2), key.beta)]

\* compute_g2_s_key(key, digest)
compute_g2_s_key(key, digest) ==
  <<compute_g2_s(digest, key.tau_g1[1], key.tau_g1[2], 0),
    compute_g2_s(digest, key.alpha_g1[1], key.alpha_g1[2], 1),
    compute_g2_s(digest, key.beta_g1[1], key.beta_g1[2], 2)>>

\* ------------------------------------------- verify_pok_and_correctness
\* check_elements_are_non_zero_and_in_prime_order_subgroup on
\* buffer[start..end), read into a vector of batch_size elements: TRUE when
\* it returns Ok.  Its caller expects Ok, so FALSE is a panic.
check_elements_are_non_zero_and_in_prime_order_subgroup(buffer, start, end, batch_size) ==
  /\ start <= end
  /\ end <= Len0(buffer)
  /\ end - start <= batch_size
  /\ \A i \in start..(end - 1) : read_ok(buffer[i], "Both")
  /\ \A i \in start..(end - 1) : in_prime_order_subgroup(buffer[i])

\* The action verify_pok_and_correctness hands to iter_chunk: TRUE when no
\* task of the window panics.
verify_window(parameters, output, start, end) ==
  LET oend == other_end(parameters, start, end)
  IN /\ check_elements_are_non_zero_and_in_prime_order_subgroup(
          output.tau_g1, to_chunk(parameters, start),
          to_chunk(parameters, end), parameters.batch_size)
     /\ start < parameters.powers_length =>
          /\ check_elements_are_non_zero_and_in_prime_order_subgroup(
               output.tau_g2, to_chunk(parameters, start),
               to_chunk(parameters, oend), parameters.batch_size)
          /\ check_elements_are_non_zero_and_in_prime_order_subgroup(
               output.alpha_g1, to_chunk(parameters, start),
               to_chunk(parameters, oend), parameters.batch_size)
          /\ check_elements_are_non_zero_and_in_prime_order_subgroup(
               output.beta_g1, to_chunk(parameters, start),
               to_chunk(parameters, oend), parameters.batch_size)

\* Mutant: the first chunk's checks without the proofs of knowledge.
verify_first_chunk_without_pok(input, check_in, output, check_out, key, digest) ==
  LET g2_s == compute_g2_s_key(key, digest)
      tau_single_g1_check == key.tau_g1
      tau_single_g2_check == <<g2_s[1], key.tau_g2>>
      alpha_single_g2_check == <<g2_s[2], key.alpha_g2>>
      beta_single_g1_check == key.beta_g1
      beta_single_g2_check == <<g2_s[3], key.beta_g2>>
      \* read_initial_elements: buf[0..2*size] read as a batch
      short(a) == Len0(a) < 2
      bad(a, check) == \E i \in 0..1 : ~read_ok(a[i], check)
  IN IF short(input.tau_g1) THEN "Panic"
     ELSE IF bad(input.tau_g1, check_in) THEN "Err(Read)"
     ELSE IF short(output.tau_g1) THEN "Panic"
     ELSE IF bad(output.tau_g1, check_out) THEN "Err(Read)"
     ELSE IF output.tau_g1[0] # G1One THEN "Err(InvalidGenerator(TauG1))"
     ELSE IF short(input.tau_g2) THEN "Panic"
     ELSE IF bad(input.tau_g2, check_in) THEN "Err(Read)"
     ELSE IF short(output.tau_g2) THEN "Panic"
     ELSE IF bad(output.tau_g2, check_out) THEN "Err(Read)"
     ELSE IF output.tau_g2[0] # G2One THEN "Err(InvalidGenerator(TauG2))"
     ELSE IF ~check_same_ratio(<<input.tau_g1[1], output.tau_g1[1]>>,
                               tau_single_g2_check)
       THEN "Err(InvalidRatio(Before-After: Tau G1))"
     ELSE IF ~check_same_ratio(tau_single_g1_check,
                               <<input.tau_g2[1], output.tau_g2[1]>>)
       THEN "Err(InvalidRatio(Before-After: Tau G2))"
     ELSE IF bad(input.alpha_g1, check_in) \/ bad(output.alpha_g1, check_out)
       THEN "Err(Read)"
     ELSE IF ~check_same_ratio(<<input.alpha_g1[0], output.alpha_g1[0]>>,
                               alpha_single_g2_check)
       THEN "Err(InvalidRatio(Before-After: Alpha[0]))"
     ELSE IF bad(input.beta_g1, check_in) \/ bad(output.beta_g1, check_out)
       THEN "Err(Read)"
     ELSE IF ~check_same_ratio(<<input.beta_g1[0], output.beta_g1[0]>>,
                               beta_single_g2_check)
       THEN "Err(InvalidRatio(Before-After: Beta[0]))"
     ELSE IF ~read_ok(input.beta_g2, check_in) \/ ~read_ok(output.beta_g2, check_out)
       THEN "Err(Read)"
     ELSE IF ~check_same_ratio(beta_single_g1_check,
                               <<input.beta_g2, output.beta_g2>>)
       THEN "Err(InvalidRatio(Before-After: Beta Single G2))"
     ELSE "Ok"

\* The checks of the first chunk (Full mode or chunk_index = 0): "Ok" or the
\* first failure, in the order of the code.
verify_first_chunk(input, check_in, output, check_out, key, digest) ==
  LET g2_s == compute_g2_s_key(key, digest)
      tau_single_g1_check == key.tau_g1
      tau_single_g2_check == <<g2_s[1], key.tau_g2>>
      alpha_single_g2_check == <<g2_s[2], key.alpha_g2>>
      beta_single_g1_check == key.beta_g1
      beta_single_g2_check == <<g2_s[3], key.beta_g2>>
      \* read_initial_elements: buf[0..2*size] read as a batch
      short(a) == Len0(a) < 2
      bad(a, check) == \E i \in 0..1 : ~read_ok(a[i], check)
  IN IF ~check_same_ratio(key.tau_g1, tau_single_g2_check)
       THEN "Err(InvalidRatio(Tau G1<>G2))"
     ELSE IF ~check_same_ratio(key.alpha_g1, alpha_single_g2_check)
       THEN "Err(InvalidRatio(Alpha G1<>G2))"
     ELSE IF ~check_same_ratio(key.beta_g1, beta_single_g2_check)
       THEN "Err(InvalidRatio(Beta G1<>G2))"
     ELSE IF short(input.tau_g1) THEN "Panic"
     ELSE IF bad(input.tau_g1, check_in) THEN "Err(Read)"
     ELSE IF short(output.tau_g1) THEN "Panic"
     ELSE IF bad(output.tau_g1, check_out) THEN "Err(Read)"
     ELSE IF output.tau_g1[0] # G1One THEN "Err(InvalidGenerator(TauG1))"
     ELSE IF short(input.tau_g2) THEN "Panic"
     ELSE IF bad(input.tau_g2, check_in) THEN "Err(Read)"
     ELSE IF short(output.tau_g2) THEN "Panic"
     ELSE IF bad(output.tau_g2, check_out) THEN "Err(Read)"
     ELSE IF output.tau_g2[0] # G2One THEN "Err(InvalidGenerator(TauG2))"
     ELSE IF ~check_same_ratio(<<input.tau_g1[1], output.tau_g1[1]>>,
                               tau_single_g2_check)
       THEN "Err(InvalidRatio(Before-After: Tau G1))"
     ELSE IF ~check_same_ratio(tau_single_g1_check,
                               <<input.tau_g2[1], output.tau_g2[1]>>)
       THEN "Err(InvalidRatio(Before-After: Tau G2))"
     ELSE IF bad(input.alpha_g1, check_in) \/ bad(output.alpha_g1, check_out)
       THEN "Err(Read)"
     ELSE IF ~check_same_ratio(<<input.alpha_g1[0], output.alpha_g1[0]>>,
                               alpha_single_g2_check)
       THEN "Err(InvalidRatio(Before-After: Alpha[0]))"
     ELSE IF bad(input.beta_g1, check_in) \/ bad(output.beta_g1, check_out)
       THEN "Err(Read)"
     ELSE IF ~check_same_ratio(<<input.beta_g1[0], output.beta_g1[0]>>,
                               beta_single_g2_check)
       THEN "Err(InvalidRatio(Before-After: Beta[0]))"
     ELSE IF ~read_ok(input.beta_g2, check_in) \/ ~read_ok(output.beta_g2, check_out)
       THEN "Err(Read)"
     ELSE IF ~check_same_ratio(beta_single_g1_check,
                               <<input.beta_g2, output.beta_g2>>)
       THEN "Err(InvalidRatio(Before-After: Beta Single G2))"
     ELSE "Ok"

\* verify_pok_and_correctness(input, output, key, digest, parameters):
\* "Ok", "Err(..)" (a returned error) or "Panic".
verify_pok_and_correctness(input, check_in, output, check_out, key, digest, parameters) ==
  LET first == IF \/ parameters.contribution_mode = "Full"
                  \/ parameters.chunk_index = 0
               THEN verify_first_chunk(input, check_in, output, check_out,
                                       key, digest)
               ELSE "Ok"
      windows == iter_chunk_windows(parameters)
  IN IF first # "Ok" THEN first
     ELSE IF \A j \in 1..Len(windows) :
               verify_window(parameters, output, windows[j][1], windows[j][2])
          THEN "Ok"
          ELSE "Panic"

\* ---------------------------------------------------------- verify_ratios
\* check_power_ratios / check_power_ratios_g2 on buffer[start..end) against
\* the pair check = (g, g^tau): the batch is read, and the random linear
\* combination of power_pairs is taken as exact, i.e. it passes exactly when
\* every adjacent pair of the window has the ratio of check.  TRUE when it
\* returns Ok; its caller expects Ok, so FALSE is a panic.
check_power_ratios(buffer, check_out, start, end, batch_size, check) ==
  /\ start < end
  /\ end <= Len0(buffer)
  /\ end - start <= batch_size
  /\ \A i \in start..(end - 1) : read_ok(buffer[i], check_out)
  /\ \A i \in start..(end - 2) :
       check_same_ratio(<<buffer[i], buffer[i + 1]>>, check)

\* The action verify_ratios hands to iter_chunk.
verify_ratios_window(parameters, output, check_out, g1_check, g2_check, start, end) ==
  LET oend == other_end(parameters, start, end)
  IN /\ check_power_ratios(output.tau_g1, check_out, start, end,
                           parameters.batch_size, g2_check)
     /\ start < parameters.powers_length =>
          /\ check_power_ratios(output.tau_g2, check_out, start, oend,
                                parameters.batch_size, g1_check)
          /\ check_power_ratios(output.alpha_g1, check_out, start, oend,
                                parameters.batch_size, g2_check)
          /\ check_power_ratios(output.beta_g1, check_out, start, oend,
                                parameters.batch_size, g2_check)

\* Mutant: the generator of tauG1 is not asserted.
verify_ratios_tau_g1_unchecked(output, check_out, parameters) ==
  LET short(a) == Len0(a) < 2
      bad(a) == \E i \in 0..1 : ~read_ok(a[i], check_out)
      g1_check == <<output.tau_g1[0], output.tau_g1[1]>>
      g2_check == <<output.tau_g2[0], output.tau_g2[1]>>
      windows == iter_chunk_windows(parameters)
  IN IF short(output.tau_g1) THEN "Panic"
     ELSE IF bad(output.tau_g1) THEN "Err(Read)"
     ELSE IF short(output.tau_g2) THEN "Panic"
     ELSE IF bad(output.tau_g2) THEN "Err(Read)"
     ELSE IF output.tau_g2[0] # G2One THEN "Err(InvalidGenerator(TauG2))"
     ELSE IF \A j \in 1..Len(windows) :
               verify_ratios_window(parameters, output, check_out,
                                    g1_check, g2_check,
                                    windows[j][1], windows[j][2])
          THEN "Ok"
          ELSE "Panic"

\* verify_ratios(output, parameters) on a buffer split by split_full:
\* "Ok", "Err(..)" or "Panic".
verify_ratios(output, check_out, parameters) ==
  LET short(a) == Len0(a) < 2
      bad(a) == \E i \in 0..1 : ~read_ok(a[i], check_out)
      g1_check == <<output.tau_g1[0], output.tau_g1[1]>>
      g2_check == <<output.tau_g2[0], output.tau_g2[1]>>
      windows == iter_chunk_windows(parameters)
  IN IF short(output.tau_g1) THEN "Panic"
     ELSE IF bad(output.tau_g1) THEN "Err(Read)"
     ELSE IF output.tau_g1[0] # G1One THEN "Err(InvalidGenerator(TauG1))"
     ELSE IF short(output.tau_g2) THEN "Panic"
     ELSE IF bad(output.tau_g2) THEN "Err(Read)"
     ELSE IF output.tau_g2[0] # G2One THEN "Err(InvalidGenerator(TauG2))"
     ELSE IF \A j \in 1..Len(windows) :
               verify_ratios_window(parameters, output, check_out,
                                    g1_check, g2_check,
                                    windows[j][1], windows[j][2])
          THEN "Ok"
          ELSE "Panic"

\* ---------------------------------------------------------------- combine
\* A freshly created buffer of the whole accumulator (the full view).
fresh_full_buffer(parameters) ==
  [tau_g1 |-> Array(parameters.powers_g1_length, Unwritten),
   tau_g2 |-> Array(parameters.powers_length, Unwritten),
   alpha_g1 |-> Array(parameters.powers_length, Unwritten),
   beta_g1 |-> Array(parameters.powers_length, Unwritten),
   beta_g2 |-> Unwritten]

\* Mutant: the chunk's first slot is counted in batches instead of chunks.
buf_to_chunk_batch_offset(parameters, len, els, is_other) ==
  IF is_other /\ els = 0 THEN <<0, 0, FALSE>>
  ELSE LET start == parameters.chunk_index * parameters.batch_size
           end == start + els
       IN <<start, end, underflowed(els) \/ end > len>>

\* buf_to_chunk of split_at_chunk_mut, in elements: the slots
\* [chunk_index*chunk_size, chunk_index*chunk_size + els) of a region of
\* len elements; <<lo, hi, panic>>.
buf_to_chunk(parameters, len, els, is_other) ==
  IF is_other /\ els = 0 THEN <<0, 0, FALSE>>
  ELSE LET start == parameters.chunk_index * parameters.chunk_size
           end == start + els
       IN <<start, end, underflowed(els) \/ end > len>>

\* write_batch of the elements read from a chunk's region into the slots
\* [lo, lo + n) of the output region.
copy_chunk(region, lo, elements) ==
  [i \in DOMAIN region |->
     IF lo <= i /\ i < lo + Len0(elements) THEN elements[i - lo]
     ELSE region[i]]

\* Mutant: betaG2 is written from every chunk.
combine_chunk_beta_g2_of_every_chunk(parameters, input, acc, chunk_index) ==
  LET chunk_parameters == specialize_to_chunk(parameters,
                            parameters.contribution_mode, chunk_index,
                            parameters.chunk_size)
      els == params_chunk_element_sizes(chunk_parameters)
      out == acc.buffer
      g1 == buf_to_chunk(chunk_parameters, Len0(out.tau_g1), els[1], FALSE)
      ot == buf_to_chunk(chunk_parameters, Len0(out.tau_g2), els[2], TRUE)
      start == chunk_index * chunk_parameters.chunk_size
      others == start < chunk_parameters.powers_length
      panic == \/ Len0(input.tau_g1) # els[1]
               \/ Len0(input.tau_g2) # els[2]
               \/ g1[3] \/ ot[3]
  IN IF panic THEN [status |-> "Panic", buffer |-> out]
     ELSE [status |-> "Ok",
           buffer |->
             [tau_g1 |-> copy_chunk(out.tau_g1, g1[1], input.tau_g1),
              tau_g2 |-> IF others
                         THEN copy_chunk(out.tau_g2, ot[1], input.tau_g2)
                         ELSE out.tau_g2,
              alpha_g1 |-> IF others
                           THEN copy_chunk(out.alpha_g1, ot[1], input.alpha_g1)
                           ELSE out.alpha_g1,
              beta_g1 |-> IF others
                          THEN copy_chunk(out.beta_g1, ot[1], input.beta_g1)
                          ELSE out.beta_g1,
              beta_g2 |-> input.beta_g2]]

\* One iteration of combine's loop: chunk chunk_index (from 0) of inputs is
\* copied into the output; the state is [status, buffer].
combine_chunk(parameters, input, acc, chunk_index) ==
  LET chunk_parameters == specialize_to_chunk(parameters,
                            parameters.contribution_mode, chunk_index,
                            parameters.chunk_size)
      els == params_chunk_element_sizes(chunk_parameters)
      out == acc.buffer
      g1 == buf_to_chunk(chunk_parameters, Len0(out.tau_g1), els[1], FALSE)
      ot == buf_to_chunk(chunk_parameters, Len0(out.tau_g2), els[2], TRUE)
      start == chunk_index * chunk_parameters.chunk_size
      others == start < chunk_parameters.powers_length
      panic == \/ Len0(input.tau_g1) # els[1]
               \/ Len0(input.tau_g2) # els[2]
               \/ g1[3] \/ ot[3]
  IN IF panic THEN [status |-> "Panic", buffer |-> out]
     ELSE [status |-> "Ok",
           buffer |->
             [tau_g1 |-> copy_chunk(out.tau_g1, g1[1], input.tau_g1),
              tau_g2 |-> IF others
                         THEN copy_chunk(out.tau_g2, ot[1], input.tau_g2)
                         ELSE out.tau_g2,
              alpha_g1 |-> IF others
                           THEN copy_chunk(out.alpha_g1, ot[1], input.alpha_g1)
                           ELSE out.alpha_g1,
              beta_g1 |-> IF others
                          THEN copy_chunk(out.beta_g1, ot[1], input.beta_g1)
                          ELSE out.beta_g1,
              beta_g2 |-> IF chunk_index = 0 THEN input.beta_g2
                          ELSE out.beta_g2]]

RECURSIVE combine_chunks(_, _, _, _)
combine_chunks(parameters, inputs, acc, j) ==
  IF j > Len(inputs) \/ acc.status # "Ok" THEN acc
  ELSE combine_chunks(parameters, inputs,
                      combine_chunk(parameters, inputs[j], acc, j - 1), j + 1)

\* combine(inputs, output, parameters): [status, buffer]
combine(inputs, output, parameters) ==
  combine_chunks(parameters, inputs, [status |-> "Ok", buffer |-> output], 1)

\* ------------------------------------------------------- byte layout
\* A slice of a buffer is the pair <<lo, hi>> of its byte offsets [lo, hi).
\* The regions of a buffer of len bytes cut by successive split_at_mut
\* calls after the hash: n1 elements of G1, n2 of G2, n2 of G1, n2 of G1,
\* then one G2 element taken from what is left.
split_regions(len, hash_size, g1, g2, n1, n2) ==
  LET o1 == hash_size
      o2 == o1 + g1 * n1
      o3 == o2 + g2 * n2
      o4 == o3 + g1 * n2
      o5 == o4 + g1 * n2
  IN [panic |-> underflowed(n1) \/ underflowed(n2) \/ o5 + g2 > len,
      tau_g1 |-> <<o1, o2>>, tau_g2 |-> <<o2, o3>>,
      alpha_g1 |-> <<o3, o4>>, beta_g1 |-> <<o4, o5>>,
      beta_g2 |-> <<o5, o5 + g2>>]

\* buf_to_chunk of split_at_chunk_mut, in bytes, on the region <<lo, hi>>.
buf_to_chunk_bytes(parameters, region, element_size, els, is_other) ==
  IF is_other /\ els = 0 THEN <<region[1], region[1], FALSE>>
  ELSE LET start == parameters.chunk_index * parameters.chunk_size * element_size
           end == start + els * element_size
       IN <<region[1] + start, region[1] + end,
            underflowed(els) \/ region[1] + end > region[2]>>

\* Mutant: the chunk's offset inside a region is counted in elements of the
\* batch size instead of the chunk size.
split_at_chunk_mut_batch_offset(len, parameters, curve, compressed) ==
  LET els == params_chunk_element_sizes(parameters)
      g1 == g1_size(curve, compressed)
      g2 == g2_size(curve, compressed)
      full == split_regions(len, parameters.hash_size, g1, g2,
                            parameters.powers_g1_length, parameters.powers_length)
      shifted == [parameters EXCEPT !.chunk_size = parameters.batch_size]
      t1 == buf_to_chunk_bytes(shifted, full.tau_g1, g1, els[1], FALSE)
      t2 == buf_to_chunk_bytes(shifted, full.tau_g2, g2, els[2], TRUE)
      a1 == buf_to_chunk_bytes(shifted, full.alpha_g1, g1, els[2], TRUE)
      b1 == buf_to_chunk_bytes(shifted, full.beta_g1, g1, els[2], TRUE)
  IN [panic |-> full.panic \/ t1[3] \/ t2[3] \/ a1[3] \/ b1[3],
      tau_g1 |-> <<t1[1], t1[2]>>, tau_g2 |-> <<t2[1], t2[2]>>,
      alpha_g1 |-> <<a1[1], a1[2]>>, beta_g1 |-> <<b1[1], b1[2]>>,
      beta_g2 |-> full.beta_g2]

\* split_at_chunk_mut(buf, parameters, compressed) on a buffer of len bytes:
\* the five byte ranges of the descriptor's chunk inside the full layout.
split_at_chunk_mut(len, parameters, curve, compressed) ==
  LET els == params_chunk_element_sizes(parameters)
      g1 == g1_size(curve, compressed)
      g2 == g2_size(curve, compressed)
      full == split_regions(len, parameters.hash_size, g1, g2,
                            parameters.powers_g1_length, parameters.powers_length)
      t1 == buf_to_chunk_bytes(parameters, full.tau_g1, g1, els[1], FALSE)
      t2 == buf_to_chunk_bytes(parameters, full.tau_g2, g2, els[2], TRUE)
      a1 == buf_to_chunk_bytes(parameters, full.alpha_g1, g1, els[2], TRUE)
      b1 == buf_to_chunk_bytes(parameters, full.beta_g1, g1, els[2], TRUE)
  IN [panic |-> full.panic \/ t1[3] \/ t2[3] \/ a1[3] \/ b1[3],
      tau_g1 |-> <<t1[1], t1[2]>>, tau_g2 |-> <<t2[1], t2[2]>>,
      alpha_g1 |-> <<a1[1], a1[2]>>, beta_g1 |-> <<b1[1], b1[2]>>,
      beta_g2 |-> full.beta_g2]

\* The length the phase-1 CLI combine gives the combined file:
\* accumulator_size - hash_size of the descriptor of chunk 0 whose chunk
\* spans powers_g1_length elements.
combined_file_length(parameters, curve) ==
  LET parameters_for_output ==
        new_with_curve(0, curve, parameters.size, parameters.powers_g1_length)
  IN usize_sub(parameters_for_output.accumulator_size,
               parameters_for_output.hash_size)

\* The length of the buffer a descriptor of the engine stands for: the
\* whole accumulator in Full mode, the descriptor's chunk in Chunked mode.
descriptor_length(parameters, curve, compressed) ==
  LET params == IF parameters.contribution_mode = "Full"
                THEN new_with_curve(0, curve, parameters.size,
                                    parameters.powers_g1_length)
                ELSE new_with_curve(parameters.chunk_index, curve,
                                    parameters.size, parameters.chunk_size)
  IN get_length(params, compressed)

\* Mutant: the alphaG1 range is sized with G2 elements.
split_alpha_as_g2(len, parameters, curve, compressed) ==
  LET els == params_chunk_element_sizes(parameters)
      g1 == g1_size(curve, compressed)
      g2 == g2_size(curve, compressed)
      r == split_regions(len, parameters.hash_size, g1, g2, els[1], els[2])
      o4 == r.alpha_g1[1] + g2 * els[2]
      o5 == o4 + g1 * els[2]
  IN [r EXCEPT !.alpha_g1 = <<r.alpha_g1[1], o4>>, !.beta_g1 = <<o4, o5>>,
               !.beta_g2 = <<o5, o5 + g2>>]

\* split(buf, parameters, compressed) on a buffer of len bytes: the chunk
\* view.
split(len, parameters, curve, compressed) ==
  LET els == params_chunk_element_sizes(parameters)
  IN split_regions(len, parameters.hash_size, g1_size(curve, compressed),
                   g2_size(curve, compressed), els[1], els[2])

\* split_mut(buf, parameters, compressed): the chunk view, mutable.
split_mut(len, parameters, curve, compressed) ==
  LET els == params_chunk_element_sizes(parameters)
  IN split_regions(len, parameters.hash_size, g1_size(curve, compressed),
                   g2_size(curve, compressed), els[1], els[2])

\* split_full(buf, parameters, compressed): the full view.
split_full(len, parameters, curve, compressed) ==
  split_regions(len, parameters.hash_size, g1_size(curve, compressed),
                g2_size(curve, compressed), parameters.powers_g1_length,
                parameters.powers_length)

\* --------------------------------------------------- serialized elements
\* The affine coordinates of a point other than the point at infinity: the
\* two points of one x coordinate have opposite y coordinates.
coord_x(p) == p \div 2

coord_y(p) == IF p % 2 = 0 THEN coord_x(p) + 1 ELSE 0 - (coord_x(p) + 1)

\* The bytes an element takes in a buffer, written at one offset: size
\* bytes that hold, uncompressed, x and y, and compressed, x and the sign
\* of y; the point at infinity is a flag.
serialize(p, size, compression) ==
  IF is_zero(p)
  THEN [size |-> size, compressed |-> compression, infinity |-> TRUE,
        x |-> 0, y |-> 0]
  ELSE [size |-> size, compressed |-> compression, infinity |-> FALSE,
        x |-> coord_x(p),
        y |-> IF compression = "Yes"
              THEN (IF coord_y(p) < 0 THEN 1 ELSE 0)
              ELSE coord_y(p)]

\* What the bytes at an offset parse to, read as an element of size bytes
\* in the given compression: the point they encode, or Malformed.
Malformed == 0 - 2

deserialize(cell, size, compression) ==
  IF \E p \in Points : serialize(p, size, compression) = cell
  THEN CHOOSE p \in Points : serialize(p, size, compression) = cell
  ELSE Malformed

\* A byte buffer: its length and the elements written into it, by the
\* offset of their first byte.  The bytes no element covers are zero.
ByteBuffer(len) == [len |-> len, bytes |-> <<>>]

\* The offsets of the elements of a buffer that lie outside [lo, hi).
Outside(bytes, lo, hi) ==
  {q \in DOMAIN bytes : q + bytes[q].size <= lo \/ q >= hi}

\* write_batch(elements, compression) on the slice <<lo, hi>> of a buffer:
\* element i goes to lo + i * size.  Elements that do not fit in the slice
\* are an error.
write_batch(buffer, slice, elements, size, compression) ==
  LET n == Len0(elements)
      lo == slice[1]
  IN IF lo + n * size > slice[2] \/ slice[2] > buffer.len
     THEN [status |-> "Err", buffer |-> buffer]
     ELSE LET keep == Outside(buffer.bytes, lo, lo + n * size)
              at == {lo + i * size : i \in 0..(n - 1)}
          IN [status |-> "Ok",
              buffer |->
                [buffer EXCEPT !.bytes =
                   [q \in keep \cup at |->
                      IF q \in at
                      THEN serialize(elements[(q - lo) \div size], size,
                                     compression)
                      ELSE buffer.bytes[q]]]]

\* read_batch(compression, check) on the slice <<lo, hi>> of a buffer: the
\* elements of size bytes the slice holds, element i read at lo + i * size.
read_batch(buffer, slice, size, compression, check) ==
  LET lo == slice[1]
      n == (slice[2] - slice[1]) \div size
      cell(i) == IF lo + i * size \in DOMAIN buffer.bytes
                 THEN buffer.bytes[lo + i * size]
                 ELSE [size |-> 0]
      elements == [i \in 0..(n - 1) |-> deserialize(cell(i), size, compression)]
  IN IF \E i \in 0..(n - 1) :
          elements[i] = Malformed \/ ~read_ok(elements[i], check)
     THEN [status |-> "Err", elements |-> elements]
     ELSE [status |-> "Ok", elements |-> elements]

\* Mutant: the output slice is taken at the offsets of compressed elements.
decompress_buffer_compressed_offsets(output, out_slice, input, in_slice, range, in_size, out_size, check) ==
  LET start == range[1]
      end == range[2]
      from == <<in_slice[1] + start * in_size, in_slice[1] + end * in_size>>
      to == <<out_slice[1] + start * in_size,
              out_slice[1] + start * in_size + (end - start) * out_size>>
  IN IF start > end \/ from[2] > in_slice[2] \/ to[2] > out_slice[2]
     THEN [status |-> "Panic", buffer |-> output]
     ELSE LET elements == read_batch(input, from, in_size, "Yes", check)
          IN IF elements.status # "Ok"
             THEN [status |-> "Err", buffer |-> output]
             ELSE write_batch(output, to, elements.elements, out_size, "No")

\* decompress_buffer(output, input, (start, end), check) on the slices
\* out_slice and in_slice of two buffers, for elements of in_size bytes
\* compressed and out_size bytes uncompressed.  A slice out of range is a
\* panic; a failed read or write is returned.
decompress_buffer(output, out_slice, input, in_slice, range, in_size, out_size, check) ==
  LET start == range[1]
      end == range[2]
      from == <<in_slice[1] + start * in_size, in_slice[1] + end * in_size>>
      to == <<out_slice[1] + start * out_size, out_slice[1] + end * out_size>>
  IN IF start > end \/ from[2] > in_slice[2] \/ to[2] > out_slice[2]
     THEN [status |-> "Panic", buffer |-> output]
     ELSE LET elements == read_batch(input, from, in_size, "Yes", check)
          IN IF elements.status # "Ok"
             THEN [status |-> "Err", buffer |-> output]
             ELSE write_batch(output, to, elements.elements, out_size, "No")

\* decompress(input, check, output, parameters): betaG2 first, its failure
\* returned; then tauG1 and, when the chunk holds other elements, tauG2,
\* alphaG1 and betaG1, each in a task whose failure is a panic.
decompress(input, check, output, parameters, curve) ==
  LET in == split(input.len, parameters, curve, "Yes")
      out == split_mut(output.len, parameters, curve, "No")
      g1c == g1_size(curve, "Yes")
      g2c == g2_size(curve, "Yes")
      g1u == g1_size(curve, "No")
      g2u == g2_size(curve, "No")
      els == params_chunk_element_sizes(parameters)
      b2 == decompress_buffer(output, out.beta_g2, input, in.beta_g2,
                              <<0, 1>>, g2c, g2u, check)
      t1 == decompress_buffer(b2.buffer, out.tau_g1, input, in.tau_g1,
                              <<0, els[1]>>, g1c, g1u, check)
      t2 == decompress_buffer(t1.buffer, out.tau_g2, input, in.tau_g2,
                              <<0, els[2]>>, g2c, g2u, check)
      a1 == decompress_buffer(t2.buffer, out.alpha_g1, input, in.alpha_g1,
                              <<0, els[2]>>, g1c, g1u, check)
      b1 == decompress_buffer(a1.buffer, out.beta_g1, input, in.beta_g1,
                              <<0, els[2]>>, g1c, g1u, check)
  IN IF in.panic \/ out.panic
     THEN [status |-> "Panic", buffer |-> output]
     ELSE IF b2.status # "Ok"
     THEN [status |-> "Err", buffer |-> output]
     ELSE IF els[2] > 0
     THEN [status |-> IF \A r \in {t1, t2, a1, b1} : r.status = "Ok"
                      THEN "Ok" ELSE "Panic",
           buffer |-> b1.buffer]
     ELSE [status |-> IF t1.status = "Ok" THEN "Ok" ELSE "Panic",
           buffer |-> t1.buffer]

\* ------------------------------------------------------------------- init
\* init(output, parameters): the generator in every slot of the five
\* regions of the descriptor's view.
init(output, parameters) ==
  [tau_g1 |-> [i \in DOMAIN output.tau_g1 |-> G1One],
   tau_g2 |-> [i \in DOMAIN output.tau_g2 |-> G2One],
   alpha_g1 |-> [i \in DOMAIN output.alpha_g1 |-> G1One],
   beta_g1 |-> [i \in DOMAIN output.beta_g1 |-> G1One],
   beta_g2 |-> G2One]

\* calculate_hash of a challenge, as far as the proofs of knowledge depend
\* on it: some fixed function of the contents.
calculate_hash(buffer) ==
  (buffer.beta_g2 + 3 * buffer.tau_g1[Len0(buffer.tau_g1) - 1]) % FieldOrder

\* ------------------------------------------------------ ceremony inputs
\* A well-formed accumulator with trapdoor [tau, alpha, beta], in the view
\* of the descriptor: slot i of the view holds the element of global index
\* first + i.
well_formed(parameters, trapdoor) ==
  LET els == params_chunk_element_sizes(parameters)
      first == iter_chunk_range(parameters)[1]
  IN [tau_g1 |-> [i \in 0..(els[1] - 1) |-> Pow(trapdoor.tau, first + i)],
      tau_g2 |-> [i \in 0..(els[2] - 1) |-> Pow(trapdoor.tau, first + i)],
      alpha_g1 |-> [i \in 0..(els[2] - 1) |->
                      (trapdoor.alpha * Pow(trapdoor.tau, first + i)) % FieldOrder],
      beta_g1 |-> [i \in 0..(els[2] - 1) |->
                     (trapdoor.beta * Pow(trapdoor.tau, first + i)) % FieldOrder],
      beta_g2 |-> trapdoor.beta]

\* The private keys contributors draw: tau, alpha and beta non-zero.
PrivateKeys ==
  {[tau |-> 2, alpha |-> 3, beta |-> 4], [tau |-> 3, alpha |-> 2, beta |-> 2],
   [tau |-> 2, alpha |-> 4, beta |-> 3], [tau |-> 3, alpha |-> 3, beta |-> 1]}

\* The trapdoors of the accumulators a ceremony starts from: a freshly
\* initialized one, and one that earlier contributions went into.
Trapdoors ==
  {[tau |-> 1, alpha |-> 1, beta |-> 1], [tau |-> 3, alpha |-> 4, beta |-> 2]}

Identity == [tau |-> 1, alpha |-> 1, beta |-> 1]

\* The key whose single contribution stands for contributing a then b.
key_product(a, b) ==
  [tau |-> (a.tau * b.tau) % FieldOrder,
   alpha |-> (a.alpha * b.alpha) % FieldOrder,
   beta |-> (a.beta * b.beta) % FieldOrder]

\* The descriptors of a ceremony: in Full mode the chunk options keep their
\* defaults (0); in Chunked mode the chunk is a non-empty one.
Descriptors ==
  {CeremonyParams("Full", 0, 0, s, b) :
     s \in 0..MaxPower, b \in 2..MaxBatchSize}
  \cup
  {d \in {CeremonyParams("Chunked", k, c, s, b) :
            k \in 0..(2 * Pow2(MaxPower) - 2), c \in 1..MaxChunkSize,
            s \in 0..MaxPower, b \in 2..MaxBatchSize} :
     d.chunk_index * d.chunk_size < d.powers_g1_length}

None == [status |-> "None"]

\* ------------------------------------------------------------------ state
VARIABLES
  parameters,   \* the ceremony descriptor the commands are run with
  challenge,    \* the input accumulator of the current contribution
  private_key,  \* the private key of the current contributor
  response,     \* [status, buffer]: what contribute returned and wrote
  verdict,      \* what the last verification returned
  history,      \* [n, product, initial]: the contributions accepted so far
  responses,    \* the chunk responses collected for combine, in chunk order
  combined,     \* [status, buffer]: what combine returned and wrote
  args,         \* the arguments a descriptor computation is called with
  result,       \* what the descriptor computation returned
  pc            \* the step of the ceremony

vars == <<parameters, challenge, private_key, response, verdict, history,
          responses, combined, args, result, pc>>

descriptor_vars == <<args, result>>

ceremony_vars == <<parameters, challenge, private_key, response, verdict,
                   history, responses, combined>>

CheckForCorrectness == {"No", "Both"}

\* ------------------------------------- one chunk's chain of contributions
\* The ceremony of one view (the whole accumulator in Full mode, one chunk
\* in Chunked mode): contribute, verify_pok_and_correctness, and the
\* accepted response becomes the next challenge.
Init ==
  /\ parameters \in Descriptors
  /\ \E t \in Trapdoors :
       /\ challenge = well_formed(parameters, t)
       /\ history = [n |-> 0, product |-> Identity,
                     initial |-> well_formed(parameters, t)]
  /\ private_key = Identity
  /\ response = None
  /\ verdict = "None"
  /\ responses = <<>>
  /\ combined = None
  /\ args = None
  /\ result = None
  /\ pc = "challenge"

\* The contribute command: a fresh key, the response written to a new file.
\* contribute borrows the key (key: &PrivateKey): the key object is after
\* the call what it was before it.
Contribute ==
  /\ pc = "challenge"
  /\ history.n < MaxContributions
  /\ \E key \in PrivateKeys, check \in CheckForCorrectness :
       /\ private_key' = key
       /\ response' = contribute(challenge, check, fresh_buffer(parameters),
                                 key, parameters)
  /\ pc' = "response"
  /\ UNCHANGED <<parameters, challenge, verdict, history, responses, combined>>
  /\ UNCHANGED descriptor_vars

\* The verification of the response against the challenge, with the
\* contributor's public key and the digest of the challenge.
VerifyPokAndCorrectness ==
  /\ pc \in {"response", "tampered"}
  /\ response.status = "Ok"
  /\ \E check_in \in CheckForCorrectness, check_out \in CheckForCorrectness :
       verdict' = verify_pok_and_correctness(
                    challenge, check_in, response.buffer, check_out,
                    public_key(private_key, calculate_hash(challenge)),
                    calculate_hash(challenge), parameters)
  /\ pc' = "verified"
  /\ UNCHANGED <<parameters, challenge, private_key, response, history,
                 responses, combined>>
  /\ UNCHANGED descriptor_vars

\* The accepted response is the next challenge; the key is gone.
NewChallenge ==
  /\ pc = "verified"
  /\ verdict = "Ok"
  /\ challenge' = response.buffer
  /\ history' = [history EXCEPT !.n = @ + 1,
                                !.product = key_product(@, private_key)]
  /\ private_key' = Identity
  /\ response' = None
  /\ verdict' = "None"
  /\ pc' = "challenge"
  /\ UNCHANGED <<parameters, responses, combined>>
  /\ UNCHANGED descriptor_vars

Next == Contribute \/ VerifyPokAndCorrectness \/ NewChallenge

Spec == Init /\ [][Next]_vars

\* C1 (as stated): every honest contribution completes, and its
\* verification against the challenge, the contributor's public key and the
\* digest of the challenge returns Ok, whatever the descriptor.
HonestContributionVerifies ==
  /\ pc = "response" => response.status = "Ok"
  /\ pc = "verified" => verdict = "Ok"

\* C2: the contributions accepted one after the other and the current one
\* leave the accumulator a single contribution with the product key would
\* leave: slot i of the view holds the initial element times tau^(global
\* index), alphaG1 and betaG1 also times alpha and beta, and betaG2 the
\* initial betaG2 times the product of the betas.
ChainedContributionsCompose ==
  (pc = "response" /\ response.status = "Ok") =>
    LET k == key_product(history.product, private_key)
        single == contribute(history.initial, "No", fresh_buffer(parameters),
                             k, parameters)
        first == iter_chunk_range(parameters)[1]
        a == history.initial
        out == response.buffer
    IN /\ single.status = "Ok"
       /\ single.buffer = out
       /\ out.beta_g2 = Mul(a.beta_g2, k.beta)
       /\ \A i \in DOMAIN out.tau_g1 :
            out.tau_g1[i] = Mul(a.tau_g1[i], Pow(k.tau, first + i))
       /\ \A i \in DOMAIN out.tau_g2 :
            /\ out.tau_g2[i] = Mul(a.tau_g2[i], Pow(k.tau, first + i))
            /\ out.alpha_g1[i] =
                 Mul(a.alpha_g1[i], (k.alpha * Pow(k.tau, first + i)) % FieldOrder)
            /\ out.beta_g1[i] =
                 Mul(a.beta_g1[i], (k.beta * Pow(k.tau, first + i)) % FieldOrder)

\* A second contribution on an initialized accumulator of a later chunk:
\* betaG2 is the generator times beta1 * beta2.
SecondContributionMade ==
  /\ pc = "response"
  /\ response.status = "Ok"
  /\ history.n = 1
  /\ history.initial = init(fresh_buffer(parameters), parameters)
  /\ parameters.contribution_mode = "Chunked"
  /\ parameters.chunk_index > 0
  /\ Len0(response.buffer.tau_g2) > 1
  /\ history.product.tau # 1
  /\ private_key.beta # 1
  /\ response.buffer.beta_g2 =
       Mul(G2One, (history.product.beta * private_key.beta) % FieldOrder)

\* ------------------------------------------- the descriptor computations
\* The computations on a descriptor, each applied to arguments a command
\* line can give: the power, the batch size, the chunk size, the chunk
\* index, the curve and the compression of the buffer.
UseCompression == {"Yes", "No"}

InitParams ==
  /\ args \in [size : 0..MaxPower, batch_size : 1..MaxBatchSize,
               chunk_size : 1..MaxChunkSize, chunk_index : 0..MaxChunkIndex,
               curve : CurveNames, compressed : UseCompression]
  /\ result = None
  /\ pc = "args"
  /\ parameters = None
  /\ challenge = None
  /\ private_key = Identity
  /\ response = None
  /\ verdict = "None"
  /\ history = None
  /\ responses = <<>>
  /\ combined = None

\* CeremonyParams::new_with_curve(chunk_index, curve, size, batch_size)
NewWithCurve ==
  /\ pc = "args"
  /\ result' = [op |-> "new_with_curve",
                value |-> new_with_curve(args.chunk_index,
                                         CurveParams(args.curve),
                                         args.size, args.batch_size)]
  /\ pc' = "done"
  /\ UNCHANGED args
  /\ UNCHANGED ceremony_vars

\* params.get_length(compressed) on the descriptor just built
GetLength ==
  /\ pc = "done"
  /\ result.op = "new_with_curve"
  /\ result' = [op |-> "get_length", params |-> result.value,
                value |-> get_length(result.value, args.compressed)]
  /\ pc' = "length"
  /\ UNCHANGED args
  /\ UNCHANGED ceremony_vars

\* chunk_element_sizes(b, chunk_index, powers_g1_length, powers_length),
\* b being the batch size (the descriptor's method) or the chunk size (the
\* engine's descriptor).
ChunkElementSizes ==
  /\ pc = "args"
  /\ \E b \in {args.batch_size, args.chunk_size} :
       result' = [op |-> "chunk_element_sizes", b |-> b,
                  value |-> chunk_element_sizes(b, args.chunk_index,
                                                (2 * Pow2(args.size)) - 1,
                                                Pow2(args.size))]
  /\ pc' = "done"
  /\ UNCHANGED args
  /\ UNCHANGED ceremony_vars

\* iter_chunk(parameters, action) with an action that records its window.
\* Itertools' chunks(0) panics, so a batch size of 1 gives no windows.
IterChunk ==
  /\ pc = "args"
  /\ \E mode \in ContributionModes :
       LET p == CeremonyParams(mode, args.chunk_index, args.chunk_size,
                               args.size, args.batch_size)
       IN result' = [op |-> "iter_chunk", parameters |-> p,
                     status |-> IF args.batch_size < 2 THEN "Panic" ELSE "Ok",
                     value |-> IF args.batch_size < 2 THEN <<>>
                               ELSE iter_chunk_windows(p)]
  /\ pc' = "done"
  /\ UNCHANGED args
  /\ UNCHANGED ceremony_vars

\* split_at_chunk_mut(buf, parameters, compressed) on the buffer combine
\* writes: the combined file of the ceremony.
SplitAtChunkMut ==
  /\ pc = "args"
  /\ LET p == CeremonyParams("Chunked", args.chunk_index, args.chunk_size,
                             args.size, args.batch_size)
         len == combined_file_length(p, CurveParams(args.curve))
     IN result' = [op |-> "split_at_chunk_mut", parameters |-> p, len |-> len,
                   value |-> split_at_chunk_mut(len, p, CurveParams(args.curve),
                                                args.compressed)]
  /\ pc' = "done"
  /\ UNCHANGED args
  /\ UNCHANGED ceremony_vars

NextParams ==
  \/ NewWithCurve
  \/ GetLength
  \/ ChunkElementSizes
  \/ IterChunk
  \/ SplitAtChunkMut

SpecParams == InitParams /\ [][NextParams]_vars

\* The element indices a sequence of windows <<start, end>> covers.
Indices(windows) ==
  UNION {windows[j][1]..(windows[j][2] - 1) : j \in 1..Len(windows)}

\* Some window holds both i and i + 1.
PairInWindow(windows, i) ==
  \E j \in 1..Len(windows) : windows[j][1] <= i /\ i + 1 < windows[j][2]

Disjoint(r1, r2) ==
  r1[2] <= r1[1] \/ r2[2] <= r2[1] \/ r1[2] <= r2[1] \/ r2[2] <= r1[1]

\* The chunk indices of a ceremony: 0 .. ceil(G / c) - 1.
ChunkIndices(powers_g1_length, chunk_size) ==
  0..(((powers_g1_length + chunk_size - 1) \div chunk_size) - 1)

\* The element ranges [lo[k], lo[k] + len[k]) of the chunks partition
\* [0, n): every index lies in the range of exactly one chunk.
Partition(n, chunks, lo, len) ==
  /\ \A k \in chunks : len[k] >= 0 /\ lo[k] >= 0 /\ lo[k] + len[k] <= n
  /\ \A i \in 0..(n - 1) :
       Cardinality({k \in chunks : lo[k] <= i /\ i < lo[k] + len[k]}) = 1

\* C8 (amended): over the chunk indices of a ceremony the tauG1 element
\* ranges partition [0, G) and the tauG2/alphaG1/betaG1 ranges partition
\* [0, L); the byte ranges split_at_chunk_mut returns for the four arrays of
\* one chunk intersect neither each other nor those of another chunk nor
\* the betaG2 range, and the betaG2 range is the same for every chunk index.
ChunkRangesPartition ==
  (pc = "done" /\ result.op = "split_at_chunk_mut"
     /\ result.parameters.chunk_index
          \in ChunkIndices(result.parameters.powers_g1_length,
                           result.parameters.chunk_size)) =>
    LET p == result.parameters
        G == p.powers_g1_length
        L == p.powers_length
        c == p.chunk_size
        chunks == ChunkIndices(G, c)
        g1_len == [k \in chunks |-> chunk_element_sizes(c, k, G, L)[1]]
        other_len == [k \in chunks |-> chunk_element_sizes(c, k, G, L)[2]]
        g1_lo == [k \in chunks |-> k * c]
        other_lo == [k \in chunks |-> Min(k * c, L)]
        mine == result.value
        arrays(v) == {v.tau_g1, v.tau_g2, v.alpha_g1, v.beta_g1}
    IN /\ Partition(G, chunks, g1_lo, g1_len)
       /\ Partition(L, chunks, other_lo, other_len)
       /\ ~mine.panic
       /\ mine.beta_g2[2] <= result.len
       /\ \A r \in arrays(mine) : Disjoint(r, mine.beta_g2)
       /\ Cardinality({r \in arrays(mine) : r[1] < r[2]}) =
            (IF other_len[p.chunk_index] > 0 THEN 4 ELSE 1)
       /\ \A r1 \in arrays(mine), r2 \in arrays(mine) :
            r1 # r2 => Disjoint(r1, r2)
       /\ \A k \in chunks \ {p.chunk_index} :
            LET other == split_at_chunk_mut(
                           result.len,
                           specialize_to_chunk(p, p.contribution_mode, k, c),
                           CurveParams(args.curve), args.compressed)
            IN /\ ~other.panic
               /\ \A r1 \in arrays(mine), r2 \in arrays(other) :
                    Disjoint(r1, r2)
               /\ other.beta_g2 = mine.beta_g2

\* C8 (as stated): none of the byte ranges split_at_chunk_mut returns for
\* two different chunk indices intersect.
ChunkByteRangesNeverIntersect ==
  (pc = "done" /\ result.op = "split_at_chunk_mut"
     /\ result.parameters.chunk_index
          \in ChunkIndices(result.parameters.powers_g1_length,
                           result.parameters.chunk_size)) =>
    LET p == result.parameters
        mine == result.value
        ranges(v) == {v.tau_g1, v.tau_g2, v.alpha_g1, v.beta_g1, v.beta_g2}
    IN \A k \in ChunkIndices(p.powers_g1_length, p.chunk_size) \ {p.chunk_index} :
         LET other == split_at_chunk_mut(
                        result.len,
                        specialize_to_chunk(p, p.contribution_mode, k,
                                            p.chunk_size),
                        CurveParams(args.curve), args.compressed)
         IN \A r1 \in ranges(mine), r2 \in ranges(other) : Disjoint(r1, r2)

\* The ranges of a middle chunk of a ceremony of at least three chunks,
\* with elements in all four arrays.
MiddleChunkSplit ==
  /\ pc = "done"
  /\ result.op = "split_at_chunk_mut"
  /\ result.parameters.chunk_index = 1
  /\ result.parameters.chunk_size = 2
  /\ result.parameters.size = 2
  /\ ~result.value.panic
  /\ result.value.tau_g2[1] < result.value.tau_g2[2]

\* C9 (as stated): with start = k*b and end = (k+1)*b, chunk_element_sizes
\* returns min(end, G) - start, 0 when start >= G, and
\* max(0, min(end, L) - min(start, L)), and no subtraction underflows.
ChunkElementSizesClamped ==
  (pc = "done" /\ result.op = "chunk_element_sizes") =>
    LET G == (2 * Pow2(args.size)) - 1
        L == Pow2(args.size)
        start == args.chunk_index * result.b
        end == (args.chunk_index + 1) * result.b
    IN /\ ~underflowed(result.value[1])
       /\ ~underflowed(result.value[2])
       /\ result.value[1] = (IF start >= G THEN 0 ELSE Min(end, G) - start)
       /\ result.value[2] = Max(0, Min(end, L) - Min(start, L))

\* The size of an accumulator of n1 tauG1 elements and n2 elements in each
\* of the other three arrays, for element sizes g1 and g2.
SizeOf(n1, n2, g1, g2) ==
  n1 * g1 + n2 * (g2 + 2 * g1) + g2 + 2 * g1 + 2 * g2 + 64

chunk_challenge(accumulator, chunk_parameters) ==
  LET els == params_chunk_element_sizes(chunk_parameters)
      lo == chunk_parameters.chunk_index * chunk_parameters.chunk_size
      olo == Min(lo, chunk_parameters.powers_length)
  IN [tau_g1 |-> [i \in 0..(els[1] - 1) |-> accumulator.tau_g1[lo + i]],
      tau_g2 |-> [i \in 0..(els[2] - 1) |-> accumulator.tau_g2[olo + i]],
      alpha_g1 |-> [i \in 0..(els[2] - 1) |-> accumulator.alpha_g1[olo + i]],
      beta_g1 |-> [i \in 0..(els[2] - 1) |-> accumulator.beta_g1[olo + i]],
      beta_g2 |-> accumulator.beta_g2]

\* The number of chunks of the ceremony: ceil(G / chunk_size).
NumChunks(p) ==
  (p.powers_g1_length + p.chunk_size - 1) \div p.chunk_size

\* The descriptor of the same ceremony in Full mode.
FullMode(p) == CeremonyParams("Full", 0, 0, p.size, p.batch_size)

ChunkedCeremony(p, trapdoor, key) ==
  /\ parameters = p
  /\ challenge = well_formed(FullMode(p), trapdoor)
  /\ private_key = key
  /\ response = None
  /\ verdict = "None"
  /\ history = None
  /\ responses = <<>>
  /\ combined = None
  /\ args = None
  /\ result = None
  /\ pc = "chunks"

InitCombine ==
  \E s \in 0..MaxPower, c \in 1..MaxChunkSize, b \in 2..MaxBatchSize,
     t \in Trapdoors, key \in PrivateKeys :
    ChunkedCeremony(CeremonyParams("Chunked", 0, c, s, b), t, key)

\* The contribute command on the next chunk, in chunk order.  A panic ends
\* the ceremony.
ContributeChunk ==
  /\ pc = "chunks"
  /\ Len(responses) < NumChunks(parameters)
  /\ LET chunk_parameters ==
           specialize_to_chunk(parameters, "Chunked", Len(responses),
                               parameters.chunk_size)
     IN \E check \in CheckForCorrectness :
          LET r == contribute(chunk_challenge(challenge, chunk_parameters),
                              check, fresh_buffer(chunk_parameters),
                              private_key, chunk_parameters)
          IN IF r.status = "Ok"
             THEN /\ responses' = Append(responses, r.buffer)
                  /\ UNCHANGED <<response, pc>>
             ELSE /\ response' = r
                  /\ pc' = "aborted"
                  /\ UNCHANGED responses
  /\ UNCHANGED <<parameters, challenge, private_key, verdict, history,
                 combined>>
  /\ UNCHANGED descriptor_vars

\* The combine command on the chunk responses collected so far.
Combine ==
  /\ pc = "chunks"
  /\ Len(responses) >= 1
  /\ combined' = combine(responses, fresh_full_buffer(parameters), parameters)
  /\ pc' = "combined"
  /\ UNCHANGED <<parameters, challenge, private_key, response, verdict,
                 history, responses>>
  /\ UNCHANGED descriptor_vars

\* The contribute command of the same key on the whole accumulator, in
\* Full mode.
ContributeFull ==
  /\ pc = "combined"
  /\ combined.status = "Ok"
  /\ \E check \in CheckForCorrectness :
       response' = contribute(challenge, check,
                              fresh_buffer(FullMode(parameters)),
                              private_key, FullMode(parameters))
  /\ pc' = "compared"
  /\ UNCHANGED <<parameters, challenge, private_key, verdict, history,
                 responses, combined>>
  /\ UNCHANGED descriptor_vars

\* A fault in the accumulator assembled from all the chunks: one element of
\* one array is another point of the subgroup.
Tamper ==
  /\ pc = "combined"
  /\ combined.status = "Ok"
  /\ Len(responses) = NumChunks(parameters)
  /\ \E a \in {"tau_g1", "tau_g2", "alpha_g1", "beta_g1"} :
       \E i \in DOMAIN combined.buffer[a] :
         \E f \in {2, 3} :
           /\ combined.buffer[a][i] # Unwritten
           /\ combined' = [combined EXCEPT
                             !.buffer[a][i] = Mul(combined.buffer[a][i], f)]
  /\ pc' = "tampered"
  /\ UNCHANGED <<parameters, challenge, private_key, response, verdict,
                 history, responses>>
  /\ UNCHANGED descriptor_vars

\* verify_ratios on the accumulator assembled from all the chunks, with the
\* descriptor of the command line: either mode, any chunk index of the
\* ceremony.
VerifyRatios ==
  /\ pc \in {"combined", "tampered"}
  /\ combined.status = "Ok"
  /\ Len(responses) = NumChunks(parameters)
  /\ \E mode \in ContributionModes, k \in 0..(NumChunks(parameters) - 1),
        check \in CheckForCorrectness :
       /\ args' = specialize_to_chunk(parameters, mode, k, parameters.chunk_size)
       /\ verdict' = verify_ratios(combined.buffer, check, args')
  /\ pc' = "ratios"
  /\ UNCHANGED <<parameters, challenge, private_key, response, history,
                 responses, combined, result>>

NextCombine ==
  \/ ContributeChunk
  \/ Combine
  \/ ContributeFull
  \/ Tamper
  \/ VerifyRatios

SpecCombine == InitCombine /\ [][NextCombine]_vars

\* The chunked ceremony of the scenario: power 5, chunk size 8.
Scenario == [power |-> 5, chunk_size |-> 8]

InitScenario ==
  \E b \in 3..MaxBatchSize, t \in Trapdoors, key \in PrivateKeys :
    ChunkedCeremony(
      CeremonyParams("Chunked", 0, Scenario.chunk_size, Scenario.power, b),
      t, key)

NextScenario ==
  \/ ContributeChunk
  \/ Combine
  \/ ContributeFull

SpecScenario == InitScenario /\ [][NextScenario]_vars

\* C3 (as stated): for every power, chunk size and batch size the Chunked
\* contributions of every chunk in order complete, and their combination
\* holds, in all five arrays, the elements of the Full-mode contribution of
\* the same key.
CombineMatchesFullMode ==
  /\ pc # "aborted"
  /\ (pc = "compared" /\ Len(responses) = NumChunks(parameters)) =>
       /\ response.status = "Ok"
       /\ combined.buffer = response.buffer

\* Where every chunk's contribution completed, the combination of all the
\* chunk responses is the Full-mode contribution.
CombineMatchesWhereCompleted ==
  (pc = "compared" /\ Len(responses) = NumChunks(parameters)) =>
    /\ response.status = "Ok"
    /\ combined.buffer = response.buffer

\* C4 (amended): with power 5 and chunk size 8 the ceremony has 8 chunks
\* (indices 0..7); every chunk's contribution completes, the combination of
\* the 8 responses is identical to the Full-mode contribution, and the
\* combination of the first 4 responses leaves tauG1[32..62] unwritten.
ScenarioCombineOfEightChunks ==
  /\ pc # "aborted"
  /\ NumChunks(parameters) = 8
  /\ (pc = "compared" /\ Len(responses) = 8) =>
       /\ response.status = "Ok"
       /\ combined.buffer = response.buffer
  /\ (pc = "compared" /\ Len(responses) = 4) =>
       /\ \A i \in 0..31 :
            /\ combined.buffer.tau_g1[i] = response.buffer.tau_g1[i]
            /\ combined.buffer.tau_g2[i] = response.buffer.tau_g2[i]
            /\ combined.buffer.alpha_g1[i] = response.buffer.alpha_g1[i]
            /\ combined.buffer.beta_g1[i] = response.buffer.beta_g1[i]
       /\ combined.buffer.beta_g2 = response.buffer.beta_g2
       /\ \A i \in 32..62 : combined.buffer.tau_g1[i] = Unwritten

\* C4 (as stated): the combination of the 4 chunk responses of indices
\* 0..3 is identical to the Full-mode contribution.
ScenarioCombineOfFourChunks ==
  (pc = "compared" /\ Len(responses) = 4) =>
    combined.buffer = response.buffer

\* All 8 chunk responses combined and compared with the Full-mode run.
ScenarioAllChunksCombined ==
  /\ pc = "compared"
  /\ Len(responses) = 8
  /\ combined.status = "Ok"
  /\ response.status = "Ok"
  /\ private_key.tau # 1
  /\ combined.buffer.tau_g1[62] # Unwritten

\* Every adjacent pair of the four arrays of an accumulator has the ratio
\* of the first two powers of tau.
ConsecutivePowers(buffer) ==
  LET g1_check == <<buffer.tau_g1[0], buffer.tau_g1[1]>>
      g2_check == <<buffer.tau_g2[0], buffer.tau_g2[1]>>
      pairs(a) == {i \in DOMAIN a : i + 1 \in DOMAIN a}
  IN /\ \A i \in pairs(buffer.tau_g1) :
          check_same_ratio(<<buffer.tau_g1[i], buffer.tau_g1[i + 1]>>, g2_check)
     /\ \A i \in pairs(buffer.tau_g2) :
          check_same_ratio(<<buffer.tau_g2[i], buffer.tau_g2[i + 1]>>, g1_check)
     /\ \A i \in pairs(buffer.alpha_g1) :
          check_same_ratio(<<buffer.alpha_g1[i], buffer.alpha_g1[i + 1]>>, g2_check)
     /\ \A i \in pairs(buffer.beta_g1) :
          check_same_ratio(<<buffer.beta_g1[i], buffer.beta_g1[i + 1]>>, g2_check)

\* C6 (as stated): whatever descriptor verify_ratios is invoked with, its
\* windows hold every adjacent pair of the four arrays, so an accumulator
\* it returns Ok for has the consecutive-power structure.
VerifyRatiosAcceptsOnlyPowers ==
  /\ (pc = "ratios" /\ verdict = "Ok") => ConsecutivePowers(combined.buffer)
  /\ pc = "ratios" =>
       \A i \in 0..(args.powers_g1_length - 2) :
         PairInWindow(iter_chunk_windows(args), i)

\* In Full mode verify_ratios returns Ok exactly for the accumulators with
\* the consecutive-power structure.
VerifyRatiosFullMode ==
  (pc = "ratios" /\ args.contribution_mode = "Full"
     /\ args.powers_length >= 2) =>
    (verdict = "Ok" <=> (/\ ConsecutivePowers(combined.buffer)
                         /\ combined.buffer.tau_g1[0] = G1One
                         /\ combined.buffer.tau_g2[0] = G2One))

\* ------------------------------------------- verification of any response
\* One round in which the response handed to the verifier need not be the
\* honest one: one of its points is replaced by the point at infinity, by a
\* point outside the prime-order subgroup with the same component in it, or
\* by another point of the subgroup.
Replacements(p) == {0, (p % FieldOrder) + FieldOrder, Mul(p, 2)} \ {p}

TamperResponse ==
  /\ pc = "response"
  /\ response.status = "Ok"
  /\ \/ \E a \in {"tau_g1", "tau_g2", "alpha_g1", "beta_g1"} :
          \E i \in DOMAIN response.buffer[a] :
            \E p \in Replacements(response.buffer[a][i]) :
              response' = [response EXCEPT !.buffer[a][i] = p]
     \/ \E p \in Replacements(response.buffer.beta_g2) :
          response' = [response EXCEPT !.buffer.beta_g2 = p]
  /\ pc' = "tampered"
  /\ UNCHANGED <<parameters, challenge, private_key, verdict, history,
                 responses, combined>>
  /\ UNCHANGED descriptor_vars

NextVerify == Contribute \/ TamperResponse \/ VerifyPokAndCorrectness

SpecVerify == Init /\ [][NextVerify]_vars

\* A point a verified accumulator may hold.
StoredPointOk(p) ==
  p # Unwritten /\ ~is_zero(p) /\ in_prime_order_subgroup(p)

\* C5 (as stated): an output verify_pok_and_correctness returns Ok for
\* holds only non-zero points of the prime-order subgroup, in its four
\* arrays and in betaG2, whatever the chunk index, the mode and the output
\* correctness flag.
AcceptedOutputInSubgroup ==
  (pc = "verified" /\ verdict = "Ok") =>
    /\ \A i \in DOMAIN response.buffer.tau_g1 :
         StoredPointOk(response.buffer.tau_g1[i])
    /\ \A i \in DOMAIN response.buffer.tau_g2 :
         /\ StoredPointOk(response.buffer.tau_g2[i])
         /\ StoredPointOk(response.buffer.alpha_g1[i])
         /\ StoredPointOk(response.buffer.beta_g1[i])
    /\ StoredPointOk(response.buffer.beta_g2)

\* The points of the four arrays of an accepted output are non-zero points
\* of the subgroup.
AcceptedArraysInSubgroup ==
  (pc = "verified" /\ verdict = "Ok") =>
    /\ \A i \in DOMAIN response.buffer.tau_g1 :
         StoredPointOk(response.buffer.tau_g1[i])
    /\ \A i \in DOMAIN response.buffer.tau_g2 :
         /\ StoredPointOk(response.buffer.tau_g2[i])
         /\ StoredPointOk(response.buffer.alpha_g1[i])
         /\ StoredPointOk(response.buffer.beta_g1[i])

\* ------------------------------------------------- the buffer's layout
\* The byte layout of an accumulator buffer: the descriptor's lengths and
\* the five ranges split, split_mut and split_full cut out of a buffer.
MaxLayoutPower == 3

\* The batch sizes of the layout computations: the small ones, and one that
\* spans the whole of tauG1 at the largest power.
LayoutBatchSizes == (1..MaxBatchSize) \cup {(2 * Pow2(MaxLayoutPower)) - 1}

InitLayout ==
  /\ args \in [size : 0..MaxLayoutPower, batch_size : LayoutBatchSizes,
               chunk_size : 1..MaxChunkSize, chunk_index : 0..MaxChunkIndex,
               curve : CurveNames, compressed : UseCompression,
               contribution_mode : ContributionModes]
  /\ result = None
  /\ pc = "args"
  /\ parameters = None
  /\ challenge = None
  /\ private_key = Identity
  /\ response = None
  /\ verdict = "None"
  /\ history = None
  /\ responses = <<>>
  /\ combined = None

\* The descriptor of the engine for the arguments.
LayoutParameters ==
  CeremonyParams(args.contribution_mode, args.chunk_index, args.chunk_size,
                 args.size, args.batch_size)

\* The chunk of the descriptor starts inside tauG1 (or at its end), so that
\* its element counts and its length exist.
LayoutDescriptorExists ==
  \/ args.contribution_mode = "Full"
  \/ args.chunk_index * args.chunk_size <= (2 * Pow2(args.size)) - 1

\* split on a buffer of the descriptor's length.
Split ==
  /\ pc = "args"
  /\ LayoutDescriptorExists
  /\ LET p == LayoutParameters
         curve == CurveParams(args.curve)
         len == descriptor_length(p, curve, args.compressed)
     IN result' = [op |-> "split", parameters |-> p, len |-> len,
                   els |-> params_chunk_element_sizes(p),
                   value |-> split(len, p, curve, args.compressed)]
  /\ pc' = "done"
  /\ UNCHANGED args
  /\ UNCHANGED ceremony_vars

\* split_mut on a buffer of the descriptor's length.
SplitMut ==
  /\ pc = "args"
  /\ LayoutDescriptorExists
  /\ LET p == LayoutParameters
         curve == CurveParams(args.curve)
         len == descriptor_length(p, curve, args.compressed)
     IN result' = [op |-> "split_mut", parameters |-> p, len |-> len,
                   els |-> params_chunk_element_sizes(p),
                   value |-> split_mut(len, p, curve, args.compressed)]
  /\ pc' = "done"
  /\ UNCHANGED args
  /\ UNCHANGED ceremony_vars

\* split_full on a buffer of the length of the whole accumulator.
SplitFull ==
  /\ pc = "args"
  /\ LET p == LayoutParameters
         curve == CurveParams(args.curve)
         len == descriptor_length(FullMode(p), curve, args.compressed)
     IN result' = [op |-> "split_full", parameters |-> p, len |-> len,
                   els |-> <<p.powers_g1_length, p.powers_length>>,
                   value |-> split_full(len, p, curve, args.compressed)]
  /\ pc' = "done"
  /\ UNCHANGED args
  /\ UNCHANGED ceremony_vars

NextLayout ==
  \/ NewWithCurve
  \/ GetLength
  \/ Split
  \/ SplitMut
  \/ SplitFull

SpecLayout == InitLayout /\ [][NextLayout]_vars

\* The descriptor of BLS12-377 at power 3 for chunk 0.
ScenarioDescriptor ==
  /\ args.curve = "Bls12_377"
  /\ args.size = 3
  /\ args.chunk_index = 0

\* C11 (amended): for BLS12-377 and power 3 (L = 8, G = 15) the digest and
\* the five arrays of the whole accumulator take 64 + 15*96 + 8*192 + 8*96
\* + 8*96 + 192 = 4768 bytes uncompressed, which is where the betaG2 range
\* of split_full ends; the descriptor of chunk 0 reports n1*96 + n2*(192 +
\* 2*96) + 192 + 2*96 + 2*192 + 64 as its uncompressed length, n1 = min(b,
\* 15) and n2 = min(b, 8) being the element counts of its chunk of b
\* elements: 2752 for batch size 4, 5344 for a batch size of 15 or more;
\* for no batch size is it 4816.
ScenarioAccumulatorLength ==
  /\ (ScenarioDescriptor /\ pc = "done" /\ result.op = "split_full"
        /\ args.compressed = "No") =>
       /\ ~result.value.panic
       /\ result.value.tau_g1[1] = 64
       /\ result.value.beta_g2[2] = 64 + 15 * 96 + 8 * 192 + 8 * 96 + 8 * 96 + 192
       /\ result.value.beta_g2[2] = 4768
       /\ result.len = 5344
  /\ (ScenarioDescriptor /\ pc = "length" /\ result.op = "get_length"
        /\ args.compressed = "No") =>
       LET n1 == Min(args.batch_size, 15)
           n2 == Min(args.batch_size, 8)
       IN /\ result.value = result.params.accumulator_size
          /\ result.value =
               n1 * 96 + n2 * (192 + 2 * 96) + 192 + 2 * 96 + 2 * 192 + 64
          /\ args.batch_size = 4 => result.value = 2752
          /\ args.batch_size >= 15 => result.value = 5344
          /\ result.value # 4816

\* C11 (as stated): the uncompressed length the descriptor of BLS12-377,
\* power 3 and batch size 4 reports is 4816.
ScenarioLengthAsStated ==
  (ScenarioDescriptor /\ args.batch_size = 4 /\ args.compressed = "No"
     /\ pc = "length" /\ result.op = "get_length") =>
    result.value = 4816

\* The uncompressed length of the descriptor of the scenario was computed.
ScenarioLengthComputed ==
  /\ ScenarioDescriptor
  /\ args.batch_size = 4
  /\ args.compressed = "No"
  /\ pc = "length"
  /\ result.op = "get_length"
  /\ result.value = 2752

\* The byte ranges of a split, in the order of the tuple it returns.
RangesOf(v) == <<v.tau_g1, v.tau_g2, v.alpha_g1, v.beta_g1, v.beta_g2>>

\* C12: on a buffer of the descriptor's length and with either compression,
\* split, split_mut and split_full return five contiguous, pairwise
\* disjoint byte ranges in the order tauG1, tauG2, alphaG1, betaG1, betaG2:
\* tauG1 begins at offset 64, tauG2 at 64 + n1*|G1|, alphaG1 at 64 + n1*|G1|
\* + n2*|G2|, betaG1 n2*|G1| bytes later, and betaG2 is one G2 element after
\* betaG1, where (n1, n2) are the element counts of the chunk for split and
\* split_mut and (G, L) for split_full; every range lies inside the buffer.
SplitRangesInOrder ==
  (pc = "done" /\ result.op \in {"split", "split_mut", "split_full"}) =>
    LET p == result.parameters
        curve == CurveParams(args.curve)
        g1 == g1_size(curve, args.compressed)
        g2 == g2_size(curve, args.compressed)
        G == (2 * Pow2(args.size)) - 1
        L == Pow2(args.size)
        start == args.chunk_index * args.chunk_size
        end == (args.chunk_index + 1) * args.chunk_size
        chunk_view == result.op # "split_full"
                        /\ args.contribution_mode = "Chunked"
        n1 == IF chunk_view THEN Min(end, G) - start ELSE G
        n2 == IF chunk_view THEN Max(0, Min(end, L) - Min(start, L)) ELSE L
        r == RangesOf(result.value)
    IN /\ ~result.value.panic
       /\ r[1] = <<64, 64 + n1 * g1>>
       /\ r[2] = <<64 + n1 * g1, 64 + n1 * g1 + n2 * g2>>
       /\ r[3] = <<r[2][2], r[2][2] + n2 * g1>>
       /\ r[4] = <<r[3][2], r[3][2] + n2 * g1>>
       /\ r[5] = <<r[4][2], r[4][2] + g2>>
       /\ \A i \in 1..5 : 0 <= r[i][1] /\ r[i][1] <= r[i][2]
                          /\ r[i][2] <= result.len
       /\ \A i \in 1..4 : r[i][2] = r[i + 1][1]
       /\ \A i \in 1..5, j \in 1..5 : i # j => Disjoint(r[i], r[j])

\* The chunk view of a chunk with elements in all four arrays, cut out of a
\* compressed buffer.
ChunkViewSplit ==
  /\ pc = "done"
  /\ result.op = "split"
  /\ args.contribution_mode = "Chunked"
  /\ args.compressed = "Yes"
  /\ args.chunk_index = 1
  /\ result.els[1] > result.els[2]
  /\ result.els[2] > 0
  /\ ~result.value.panic

\* C13 (as stated): when the output of a Full-mode contribution holds a
\* point that fails the non-zero / subgroup check of its window,
\* verify_pok_and_correctness hands the failure to its caller as a returned
\* error: it does not panic.
FailedChecksAreReturned ==
  (pc = "verified" /\ parameters.contribution_mode = "Full"
     /\ parameters.size >= 1
     /\ \/ \E i \in DOMAIN response.buffer.tau_g1 :
             ~StoredPointOk(response.buffer.tau_g1[i])
        \/ \E i \in DOMAIN response.buffer.tau_g2 :
             \/ ~StoredPointOk(response.buffer.tau_g2[i])
             \/ ~StoredPointOk(response.buffer.alpha_g1[i])
             \/ ~StoredPointOk(response.buffer.beta_g1[i])) =>
    verdict # "Panic"

\* ------------------------------------------------ the generator checks
\* One round in which the response, honest or not, is verified either
\* against its challenge or on its own with verify_ratios.

\* The transform_ratios command on the response of a Full-mode round.
VerifyRatiosOfResponse ==
  /\ pc \in {"response", "tampered"}
  /\ response.status = "Ok"
  /\ parameters.contribution_mode = "Full"
  /\ \E check \in CheckForCorrectness :
       /\ args' = [check |-> check]
       /\ verdict' = verify_ratios(response.buffer, check, parameters)
  /\ pc' = "ratios"
  /\ UNCHANGED <<parameters, challenge, private_key, response, history,
                 responses, combined, result>>

NextGenerator ==
  \/ Contribute
  \/ TamperResponse
  \/ VerifyPokAndCorrectness
  \/ VerifyRatiosOfResponse

SpecGenerator == Init /\ [][NextGenerator]_vars

\* The first two elements of an array are points a checked read accepts.
InitialElementsValid(a) == StoredPointOk(a[0]) /\ StoredPointOk(a[1])

\* C14 (amended): verify_ratios, and verify_pok_and_correctness on the
\* output when it runs the first-chunk checks with a valid key and input,
\* first read the first two elements of tauG1: with fewer than two elements
\* in tauG1 they panic, and when the read with the caller's correctness
\* flag refuses one of the two they return the read error.  Otherwise they
\* return InvalidGenerator(TauG1) whenever tauG1[0] is not the G1
\* generator, and, tauG1[0] being the generator, they read the first two
\* elements of tauG2 the same way and return InvalidGenerator(TauG2)
\* whenever tauG2[0] is not the G2 generator; all of it before any window is
\* checked, so that such an accumulator is never accepted.
GeneratorsAsserted ==
  (pc \in {"verified", "ratios"}
     /\ (pc = "verified" =>
           parameters.contribution_mode = "Full" \/ parameters.chunk_index = 0)) =>
    LET out == response.buffer
        unchecked == pc = "ratios" /\ args.check = "No"
    IN /\ Len0(out.tau_g1) < 2 => verdict = "Panic"
       /\ (Len0(out.tau_g1) >= 2 /\ out.tau_g1[0] # G1One) =>
            /\ verdict \in {"Err(Read)", "Err(InvalidGenerator(TauG1))"}
            /\ (InitialElementsValid(out.tau_g1) \/ unchecked) =>
                 verdict = "Err(InvalidGenerator(TauG1))"
       /\ (Len0(out.tau_g1) >= 2 /\ Len0(out.tau_g2) >= 2
             /\ out.tau_g1[0] = G1One /\ out.tau_g2[0] # G2One) =>
            /\ verdict \in {"Err(Read)", "Err(InvalidGenerator(TauG2))"}
            /\ ((InitialElementsValid(out.tau_g1)
                   /\ InitialElementsValid(out.tau_g2))
                  \/ (unchecked /\ out.tau_g1[1] # Unwritten)) =>
                 verdict = "Err(InvalidGenerator(TauG2))"

\* C14 (as stated): InvalidGenerator(TauG1) is returned whenever tauG1[0] is
\* not the G1 generator, and InvalidGenerator(TauG2) whenever tauG1[0] is
\* the generator and tauG2[0] is not the G2 generator.
InvalidGeneratorWheneverNotGenerator ==
  (pc \in {"verified", "ratios"}
     /\ (pc = "verified" =>
           parameters.contribution_mode = "Full" \/ parameters.chunk_index = 0)) =>
    /\ response.buffer.tau_g1[0] # G1One =>
         verdict = "Err(InvalidGenerator(TauG1))"
    /\ (response.buffer.tau_g1[0] = G1One /\ response.buffer.tau_g2[0] # G2One) =>
         verdict = "Err(InvalidGenerator(TauG2))"

\* verify_ratios was given an accumulator whose tauG2 does not begin with
\* the generator, and refused it for that.
WrongTauG2GeneratorRefused ==
  /\ pc = "ratios"
  /\ response.buffer.tau_g1[0] = G1One
  /\ response.buffer.tau_g2[0] # G2One
  /\ verdict = "Err(InvalidGenerator(TauG2))"

\* ------------------------------------------------------ a new accumulator
\* init on an output buffer the caller hands it, then verify_ratios on the
\* initialized accumulator, or combine of initialized chunks into an output
\* buffer.  A buffer is [hash, buffer]: its first hash_size bytes and the
\* elements of its five regions.

\* What the first hash_size bytes of a buffer handed to the engine hold:
\* zeroes (a file just created) or anything else.
PriorBytes == {"Zero", "Stale"}

InitNew ==
  /\ parameters \in Descriptors
  /\ args \in [hash : PriorBytes, curve : CurveNames,
               compressed : UseCompression]
  /\ challenge = None
  /\ private_key = Identity
  /\ response = None
  /\ verdict = "None"
  /\ history = None
  /\ responses = <<>>
  /\ combined = None
  /\ result = None
  /\ pc = "new"

\* The elements a byte range <<lo, hi>> holds, for elements of size bytes:
\* nothing written yet.
SlotsOf(range, size) == Array((range[2] - range[1]) \div size, Unwritten)

\* init(output, parameters, compressed) on a buffer of the descriptor's
\* length: split_mut skips the first hash_size bytes, and init_element
\* fills each of the five slices.
Initialize ==
  /\ pc = "new"
  /\ LET curve == CurveParams(args.curve)
         g1 == g1_size(curve, args.compressed)
         g2 == g2_size(curve, args.compressed)
         len == descriptor_length(parameters, curve, args.compressed)
         r == split_mut(len, parameters, curve, args.compressed)
         output == [tau_g1 |-> SlotsOf(r.tau_g1, g1),
                    tau_g2 |-> SlotsOf(r.tau_g2, g2),
                    alpha_g1 |-> SlotsOf(r.alpha_g1, g1),
                    beta_g1 |-> SlotsOf(r.beta_g1, g1),
                    beta_g2 |-> Unwritten]
     IN response' = IF r.panic
                    THEN [status |-> "Panic", hash |-> args.hash,
                          buffer |-> output]
                    ELSE [status |-> "Ok", hash |-> args.hash,
                          buffer |-> init(output, parameters)]
  /\ pc' = "initialized"
  /\ UNCHANGED <<parameters, challenge, private_key, verdict, history,
                 responses, combined>>
  /\ UNCHANGED descriptor_vars

\* verify_ratios on the accumulator init wrote with a Full-mode descriptor.
VerifyRatiosOfNew ==
  /\ pc = "initialized"
  /\ response.status = "Ok"
  /\ parameters.contribution_mode = "Full"
  /\ \E check \in CheckForCorrectness :
       verdict' = verify_ratios(response.buffer, check, parameters)
  /\ pc' = "ratios"
  /\ UNCHANGED <<parameters, challenge, private_key, response, history,
                 responses, combined>>
  /\ UNCHANGED descriptor_vars

\* combine of the initialized chunks of a chunked ceremony into an output
\* buffer the caller hands it: split_at_chunk_mut skips the first hash_size
\* bytes of the output.
CombineNew ==
  /\ pc = "new"
  /\ parameters.contribution_mode = "Chunked"
  /\ parameters.chunk_index = 0
  /\ LET inputs == [k \in 1..NumChunks(parameters) |->
                      LET q == specialize_to_chunk(parameters, "Chunked", k - 1,
                                                   parameters.chunk_size)
                      IN init(fresh_buffer(q), q)]
         r == combine(inputs, fresh_full_buffer(parameters), parameters)
     IN combined' = [status |-> r.status, hash |-> args.hash,
                     buffer |-> r.buffer]
  /\ pc' = "combined"
  /\ UNCHANGED <<parameters, challenge, private_key, response, verdict,
                 history, responses>>
  /\ UNCHANGED descriptor_vars

NextNew ==
  \/ Initialize
  \/ VerifyRatiosOfNew
  \/ CombineNew

SpecNew == InitNew /\ [][NextNew]_vars

\* Every slot of the descriptor's arrays holds the generator after init.
InitWritesEverySlot ==
  (pc \in {"initialized", "ratios"}) =>
    LET els == params_chunk_element_sizes(parameters)
        out == response.buffer
    IN /\ response.status = "Ok"
       /\ DOMAIN out.tau_g1 = 0..(els[1] - 1)
       /\ DOMAIN out.tau_g2 = 0..(els[2] - 1)
       /\ DOMAIN out.alpha_g1 = 0..(els[2] - 1)
       /\ DOMAIN out.beta_g1 = 0..(els[2] - 1)
       /\ \A i \in DOMAIN out.tau_g1 : out.tau_g1[i] = G1One
       /\ \A i \in DOMAIN out.tau_g2 :
            /\ out.tau_g2[i] = G2One
            /\ out.alpha_g1[i] = G1One
            /\ out.beta_g1[i] = G1One
       /\ out.beta_g2 = G2One

\* verify_ratios accepts an initialized accumulator of at least two tauG1
\* elements.
InitializedAcceptedFromPowerOne ==
  (pc = "ratios" /\ parameters.size >= 1) => verdict = "Ok"

\* C15 (as stated): after init every slot of the descriptor's arrays holds
\* the generator of its group, and verify_ratios on a freshly initialized
\* full accumulator returns Ok.
InitThenVerifyRatiosOk ==
  /\ InitWritesEverySlot
  /\ pc = "ratios" => verdict = "Ok"

\* C16 (as stated): the first 64 bytes of a buffer are initialized by the
\* operation that writes it: they are zero after init, whatever the buffer
\* held, and combine has written them when it has written the elements.
DigestFieldInitialized ==
  /\ (pc \in {"initialized", "ratios"} /\ response.status = "Ok") =>
       response.hash = "Zero"
  /\ (pc = "combined" /\ combined.status = "Ok") => combined.hash = "Zero"

\* init and combine leave the first hash_size bytes of the output as they
\* found them.
DigestFieldUntouched ==
  /\ pc \in {"initialized", "ratios"} => response.hash = args.hash
  /\ pc = "combined" => combined.hash = args.hash

\* A private key whose three scalars were overwritten with zero.
Zeroized == [tau |-> 0, alpha |-> 0, beta |-> 0]

\* C17 (as stated): when contribute has returned, with Ok or with an error,
\* the scalars tau, alpha and beta of the private key it was given are
\* zeroized in the key object.
KeyZeroizedOnReturn ==
  (pc = "response" /\ response.status \in {"Ok", "Err"}) =>
    private_key = Zeroized

\* ------------------------------------------------- the combine command
\* The phase-1 CLI combine: every listed response file is opened and its
\* length compared with the expected one, then the combined file is created
\* and sized, then the accumulator's combine is called.
MaxFiles == 3

\* The length of a listed response file: the contribution size of the chunk
\* at its place in the list, the contribution size of the descriptor the
\* command was given, or neither.
FileKinds == {"OfItsChunk", "OfDescriptor", "Other"}

\* The descriptor the command line gives the command.
CommandParameters ==
  new_with_curve(args.chunk_index, CurveParams(args.curve), args.size,
                 args.batch_size)

\* The contribution size of chunk k of the ceremony.
ContributionSizeOfChunk(k) ==
  new_with_curve(k, CurveParams(args.curve), args.size,
                 args.batch_size).contribution_size

\* metadata.len() of the k-th listed file (k from 0).
FileLength(k) ==
  IF args.files[k + 1] = "OfItsChunk" THEN ContributionSizeOfChunk(k)
  ELSE IF args.files[k + 1] = "OfDescriptor"
    THEN CommandParameters.contribution_size
  ELSE ContributionSizeOfChunk(k) + CommandParameters.contribution_size

InitCliCombine ==
  /\ \E s \in 0..MaxPower, b \in 1..MaxBatchSize, k \in 0..MaxChunkIndex,
        c \in CurveNames, n \in 1..MaxFiles :
       /\ k * b <= (2 * Pow2(s)) - 1
       /\ (n - 1) * b <= (2 * Pow2(s)) - 1
       /\ \E files \in [1..n -> FileKinds] :
            args = [size |-> s, batch_size |-> b, chunk_index |-> k,
                    curve |-> c, files |-> files]
  /\ result = [readers |-> 0, output |-> "Absent", output_len |-> 0,
               written |-> FALSE]
  /\ pc = "listing"
  /\ parameters = None
  /\ challenge = None
  /\ private_key = Identity
  /\ response = None
  /\ verdict = "None"
  /\ history = None
  /\ responses = <<>>
  /\ combined = None

\* One turn of the loop over the lines of the response list: the file is
\* opened, its length is compared with the contribution size of
\* parameters.specialize_to_chunk(chunk_index), and it is mapped.
CheckResponseFile ==
  /\ pc = "listing"
  /\ result.readers < Len(args.files)
  /\ LET chunk_index == result.readers
         chunk_parameters == specialize_to_chunk_index(CommandParameters,
                                                       chunk_index)
         expected_response_length == chunk_parameters.contribution_size
     IN IF FileLength(chunk_index) # expected_response_length
        THEN /\ pc' = "panic"
             /\ UNCHANGED result
        ELSE /\ pc' = "listing"
             /\ result' = [result EXCEPT !.readers = @ + 1]
  /\ UNCHANGED args
  /\ UNCHANGED ceremony_vars

\* After the last line: the combined file is created, sized and mapped, and
\* the accumulator's combine is called on the mapped readers.
CreateAndCombine ==
  /\ pc = "listing"
  /\ result.readers = Len(args.files)
  /\ result' = [result EXCEPT
                  !.output = "Created",
                  !.output_len =
                    LET parameters_for_output ==
                          new_with_curve(0, CurveParams(args.curve), args.size,
                                         (2 * Pow2(args.size)) - 1)
                    IN usize_sub(parameters_for_output.accumulator_size,
                                 parameters_for_output.hash_size),
                  !.written = TRUE]
  /\ pc' = "combined"
  /\ UNCHANGED args
  /\ UNCHANGED ceremony_vars

NextCliCombine ==
  \/ CheckResponseFile
  \/ CreateAndCombine

SpecCliCombine == InitCliCombine /\ [][NextCliCombine]_vars

\* C19 (as stated): the command panics when a listed file's length differs
\* from the contribution size of its chunk, before the combined file is
\* created or written; the combined file is created and combine called only
\* when every file has the length expected of its chunk.
CombinePanicsOnLengthOfChunk ==
  /\ pc = "panic" => (result.output = "Absent" /\ ~result.written)
  /\ (result.output = "Created" \/ result.written) =>
       \A k \in 0..(Len(args.files) - 1) :
         FileLength(k) = ContributionSizeOfChunk(k)
  /\ \A k \in 0..(result.readers - 1) :
       FileLength(k) = ContributionSizeOfChunk(k)

\* The command panics before it creates the combined file, and creates it
\* only when every listed file has the contribution size of the descriptor
\* the command was given.
CombineChecksLengthOfDescriptor ==
  /\ pc = "panic" => (result.output = "Absent" /\ ~result.written)
  /\ (result.output = "Created" \/ result.written) =>
       /\ pc = "combined"
       /\ \A k \in 0..(Len(args.files) - 1) :
            FileLength(k) = CommandParameters.contribution_size
  /\ \A k \in 0..(result.readers - 1) :
       FileLength(k) = CommandParameters.contribution_size

\* The combined file was created although the file of the last chunk does
\* not have the length of its chunk.
CombinedDespiteWrongLength ==
  /\ pc = "combined"
  /\ \E k \in 0..(Len(args.files) - 1) :
       FileLength(k) # ContributionSizeOfChunk(k)

\* ------------------------------------------- one contribution, slot by slot
\* C20: after a contribute that returns Ok on a fresh output, every global
\* index g the descriptor covers (0 .. G-1 in Full mode, the chunk's range
\* in Chunked mode) holds in tauG1 the input element times tau^g, for
\* g < L in tauG2 the input element times tau^g, in alphaG1 times
\* alpha * tau^g and in betaG1 times beta * tau^g, betaG2 holds the input
\* betaG2 times beta, and no slot of the output is left unwritten.
ContributeClosedForm ==
  (pc = "response" /\ response.status = "Ok") =>
    LET in == challenge
        out == response.buffer
        key == private_key
        min == iter_chunk_range(parameters)[1]
        max == iter_chunk_range(parameters)[2]
        L == parameters.powers_length
    IN /\ parameters.contribution_mode = "Full" =>
            (min = 0 /\ max = parameters.powers_g1_length)
       /\ out.beta_g2 = Mul(in.beta_g2, key.beta)
       /\ out.beta_g2 # Unwritten
       /\ \A g \in min..(max - 1) :
            LET i == to_chunk(parameters, g)
            IN /\ i \in DOMAIN out.tau_g1
               /\ out.tau_g1[i] = Mul(in.tau_g1[i], Pow(key.tau, g))
               /\ g < L =>
                    /\ i \in DOMAIN out.tau_g2
                    /\ out.tau_g2[i] = Mul(in.tau_g2[i], Pow(key.tau, g))
                    /\ out.alpha_g1[i] =
                         Mul(in.alpha_g1[i],
                             (key.alpha * Pow(key.tau, g)) % FieldOrder)
                    /\ out.beta_g1[i] =
                         Mul(in.beta_g1[i],
                             (key.beta * Pow(key.tau, g)) % FieldOrder)
       /\ \A i \in DOMAIN out.tau_g1 : out.tau_g1[i] # Unwritten
       /\ \A i \in DOMAIN out.tau_g2 :
            /\ out.tau_g2[i] # Unwritten
            /\ out.alpha_g1[i] # Unwritten
            /\ out.beta_g1[i] # Unwritten

\* A contribution to a later chunk that holds elements of all five arrays,
\* with tau, alpha and beta other than one: the slot of the chunk's first
\* global index g holds the input element times alpha * tau^g, and tau^g
\* is not the power of the slot's index in the view.
LaterChunkContributed ==
  /\ pc = "response"
  /\ response.status = "Ok"
  /\ parameters.contribution_mode = "Chunked"
  /\ parameters.chunk_index > 0
  /\ Len0(response.buffer.tau_g2) > 0
  /\ private_key.alpha # 1
  /\ private_key.beta # 1
  /\ LET g == iter_chunk_range(parameters)[1]
     IN /\ g > 0
        /\ Pow(private_key.tau, g) # 1
        /\ response.buffer.alpha_g1[0] =
             Mul(challenge.alpha_g1[0],
                 (private_key.alpha * Pow(private_key.tau, g)) % FieldOrder)
        /\ response.buffer.alpha_g1[0] # challenge.alpha_g1[0]

\* ------------------------------------------------------------ decompress
\* The decompression of a compressed accumulator of the descriptor's view
\* into an output buffer, and of a range of one array, each on the points
\* a caller can have written: well-formed accumulators, and sequences of
\* arbitrary points, the point at infinity and points outside the
\* prime-order subgroup among them.
ArbitraryPoints(params, seed) ==
  LET els == params_chunk_element_sizes(params)
      point(i, k) == (seed + k + 3 * i) % (2 * FieldOrder)
  IN [tau_g1 |-> [i \in 0..(els[1] - 1) |-> point(i, 0)],
      tau_g2 |-> [i \in 0..(els[2] - 1) |-> point(i, 1)],
      alpha_g1 |-> [i \in 0..(els[2] - 1) |-> point(i, 2)],
      beta_g1 |-> [i \in 0..(els[2] - 1) |-> point(i, 4)],
      beta_g2 |-> point(0, 5)]

ElementSequences(params) ==
  {well_formed(params, t) : t \in Trapdoors}
  \cup {ArbitraryPoints(params, seed) : seed \in {2, 5}}

\* The point an output buffer used before holds in every slot.
StalePoint == 7

InitDecompress ==
  /\ parameters \in Descriptors
  /\ args \in [curve : CurveNames, check : CheckForCorrectness,
               prior : PriorBytes]
  /\ \E elements \in ElementSequences(parameters) :
       history = [elements |-> elements]
  /\ challenge = None
  /\ private_key = Identity
  /\ response = None
  /\ verdict = "None"
  /\ responses = <<>>
  /\ combined = None
  /\ result = None
  /\ pc = "elements"

\* The five arrays written into the ranges split gives, in the given
\* compression: [status, buffer].
write_arrays(buffer, ranges, elements, curve, compression) ==
  LET g1 == g1_size(curve, compression)
      g2 == g2_size(curve, compression)
      t1 == write_batch(buffer, ranges.tau_g1, elements.tau_g1, g1, compression)
      t2 == write_batch(t1.buffer, ranges.tau_g2, elements.tau_g2, g2,
                        compression)
      a1 == write_batch(t2.buffer, ranges.alpha_g1, elements.alpha_g1, g1,
                        compression)
      b1 == write_batch(a1.buffer, ranges.beta_g1, elements.beta_g1, g1,
                        compression)
      b2 == write_batch(b1.buffer, ranges.beta_g2, Array(1, elements.beta_g2),
                        g2, compression)
  IN [status |-> IF ranges.panic THEN "Panic"
                 ELSE IF \A r \in {t1, t2, a1, b1, b2} : r.status = "Ok"
                 THEN "Ok" ELSE "Err",
      buffer |-> b2.buffer]

\* The five arrays read back from the ranges split gives.
read_arrays(buffer, ranges, curve, compression, check) ==
  LET g1 == g1_size(curve, compression)
      g2 == g2_size(curve, compression)
      t1 == read_batch(buffer, ranges.tau_g1, g1, compression, check)
      t2 == read_batch(buffer, ranges.tau_g2, g2, compression, check)
      a1 == read_batch(buffer, ranges.alpha_g1, g1, compression, check)
      b1 == read_batch(buffer, ranges.beta_g1, g1, compression, check)
      b2 == read_batch(buffer, ranges.beta_g2, g2, compression, check)
  IN [status |-> IF \A r \in {t1, t2, a1, b1, b2} : r.status = "Ok"
                 THEN "Ok" ELSE "Err",
      tau_g1 |-> t1.elements, tau_g2 |-> t2.elements,
      alpha_g1 |-> a1.elements, beta_g1 |-> b1.elements,
      beta_g2 |-> b2.elements[0]]

\* The ranges of the compressed input and of the uncompressed output.
InputRanges ==
  LET curve == CurveParams(args.curve)
  IN split(descriptor_length(parameters, curve, "Yes"), parameters, curve,
           "Yes")

OutputRanges ==
  LET curve == CurveParams(args.curve)
  IN split_mut(descriptor_length(parameters, curve, "No"), parameters, curve,
               "No")

\* The caller writes the points compressed into the input, and hands an
\* output buffer of the uncompressed length: a new one, or one that held an
\* uncompressed accumulator and its digest before.
WriteCompressed ==
  /\ pc = "elements"
  /\ LET curve == CurveParams(args.curve)
         in_len == descriptor_length(parameters, curve, "Yes")
         out_len == descriptor_length(parameters, curve, "No")
         digest == [size |-> parameters.hash_size, compressed |-> "No",
                    infinity |-> FALSE, x |-> 0, y |-> 0]
         used == [ByteBuffer(out_len) EXCEPT !.bytes = (0 :> digest)]
         stale == [tau_g1 |-> [i \in DOMAIN history.elements.tau_g1 |-> StalePoint],
                   tau_g2 |-> [i \in DOMAIN history.elements.tau_g2 |-> StalePoint],
                   alpha_g1 |-> [i \in DOMAIN history.elements.alpha_g1 |-> StalePoint],
                   beta_g1 |-> [i \in DOMAIN history.elements.beta_g1 |-> StalePoint],
                   beta_g2 |-> StalePoint]
     IN /\ challenge' = write_arrays(ByteBuffer(in_len), InputRanges,
                                     history.elements, curve, "Yes")
        /\ responses' = IF args.prior = "Zero" THEN ByteBuffer(out_len)
                        ELSE write_arrays(used, OutputRanges, stale, curve,
                                          "No").buffer
  /\ pc' = "input"
  /\ UNCHANGED <<parameters, private_key, response, verdict, history,
                 combined>>
  /\ UNCHANGED descriptor_vars

\* decompress of the input into the output.
Decompress ==
  /\ pc = "input"
  /\ challenge.status = "Ok"
  /\ response' = decompress(challenge.buffer, args.check, responses,
                            parameters, CurveParams(args.curve))
  /\ pc' = "decompressed"
  /\ UNCHANGED <<parameters, challenge, private_key, verdict, history,
                 responses, combined>>
  /\ UNCHANGED descriptor_vars

\* decompress_buffer of a range (start, end) of the tauG1 or the tauG2
\* array of the input into the same array of the output.
DecompressBuffer ==
  /\ pc = "input"
  /\ challenge.status = "Ok"
  /\ \E array \in {"tau_g1", "tau_g2"} :
       \E start \in 0..Len0(history.elements[array]) :
         \E end \in start..Len0(history.elements[array]) :
           LET curve == CurveParams(args.curve)
               in_size == IF array = "tau_g1" THEN g1_size(curve, "Yes")
                          ELSE g2_size(curve, "Yes")
               out_size == IF array = "tau_g1" THEN g1_size(curve, "No")
                           ELSE g2_size(curve, "No")
               r == decompress_buffer(responses, OutputRanges[array],
                                      challenge.buffer, InputRanges[array],
                                      <<start, end>>, in_size, out_size,
                                      args.check)
           IN combined' = [status |-> r.status, buffer |-> r.buffer,
                           array |-> array, start |-> start, end |-> end,
                           out_size |-> out_size]
  /\ pc' = "range"
  /\ UNCHANGED <<parameters, challenge, private_key, response, verdict,
                 history, responses>>
  /\ UNCHANGED descriptor_vars

\* The caller reads the decompressed output back, uncompressed, unchecked.
ReadBack ==
  /\ pc = "decompressed"
  /\ response.status = "Ok"
  /\ verdict' = "Read"
  /\ combined' = read_arrays(response.buffer, OutputRanges,
                             CurveParams(args.curve), "No", "No")
  /\ pc' = "read"
  /\ UNCHANGED <<parameters, challenge, private_key, response, history,
                 responses>>
  /\ UNCHANGED descriptor_vars

NextDecompress == WriteCompressed \/ Decompress \/ DecompressBuffer \/ ReadBack

SpecDecompress == InitDecompress /\ [][NextDecompress]_vars

\* The element of index i of an array of the output lies at byte offset
\* i * size of the array's range and parses, uncompressed, to p.
ParsesAt(buffer, range, i, size, p) ==
  /\ range[1] + i * size \in DOMAIN buffer.bytes
  /\ deserialize(buffer.bytes[range[1] + i * size], size, "No") = p

\* What the buffer holds outside the byte range [lo, hi) is what prior
\* held there.
SameOutside(buffer, prior, lo, hi) ==
  /\ Outside(buffer.bytes, lo, hi) = Outside(prior.bytes, lo, hi)
  /\ \A q \in Outside(prior.bytes, lo, hi) : buffer.bytes[q] = prior.bytes[q]

\* C18: the decompression round trip.  decompress of points written
\* compressed returns Ok whenever no check is asked for or every point
\* passes it; the output then parses back, uncompressed, to the same
\* elements at the same indices of the five arrays, element i of an array
\* at byte offset i * uncompressed size of the array's range, and nothing
\* before tauG1 or after betaG2 is written; with no tauG2, alphaG1 and
\* betaG1 elements in the chunk only tauG1 and betaG2 are written.
\* decompress_buffer of a range (start, end) does the same for the elements
\* of the range and leaves the rest of the output as it was.
DecompressRoundTrip ==
  LET curve == CurveParams(args.curve)
      g1 == g1_size(curve, "No")
      g2 == g2_size(curve, "No")
      e == history.elements
      out == OutputRanges
      accepted(p) == read_ok(p, args.check)
      all_accepted ==
        /\ accepted(e.beta_g2)
        /\ \A i \in DOMAIN e.tau_g1 : accepted(e.tau_g1[i])
        /\ \A i \in DOMAIN e.tau_g2 :
             accepted(e.tau_g2[i]) /\ accepted(e.alpha_g1[i])
             /\ accepted(e.beta_g1[i])
  IN /\ pc = "input" => challenge.status = "Ok"
     /\ pc = "decompressed" => (all_accepted <=> response.status = "Ok")
     /\ (pc = "decompressed" /\ response.status = "Ok") =>
          /\ \A i \in DOMAIN e.tau_g1 :
               ParsesAt(response.buffer, out.tau_g1, i, g1, e.tau_g1[i])
          /\ \A i \in DOMAIN e.tau_g2 :
               /\ ParsesAt(response.buffer, out.tau_g2, i, g2, e.tau_g2[i])
               /\ ParsesAt(response.buffer, out.alpha_g1, i, g1, e.alpha_g1[i])
               /\ ParsesAt(response.buffer, out.beta_g1, i, g1, e.beta_g1[i])
          /\ ParsesAt(response.buffer, out.beta_g2, 0, g2, e.beta_g2)
          /\ SameOutside(response.buffer, responses, out.tau_g1[1],
                         out.beta_g2[2])
          /\ Len0(e.tau_g2) = 0 =>
               /\ out.tau_g2[1] = out.beta_g1[2]
               /\ Cardinality(DOMAIN response.buffer.bytes
                              \ Outside(response.buffer.bytes, out.tau_g1[1],
                                        out.beta_g2[2]))
                    = Len0(e.tau_g1) + 1
     /\ pc = "read" =>
          /\ combined.status = "Ok"
          /\ combined.tau_g1 = e.tau_g1
          /\ combined.tau_g2 = e.tau_g2
          /\ combined.alpha_g1 = e.alpha_g1
          /\ combined.beta_g1 = e.beta_g1
          /\ combined.beta_g2 = e.beta_g2
     /\ (pc = "range" /\ combined.status = "Ok") =>
          LET range == out[combined.array]
              size == combined.out_size
          IN /\ \A i \in combined.start..(combined.end - 1) :
                  ParsesAt(combined.buffer, range, i, size,
                           e[combined.array][i])
             /\ SameOutside(combined.buffer, responses,
                            range[1] + combined.start * size,
                            range[1] + combined.end * size)
     /\ pc = "range" =>
          ((\A i \in combined.start..(combined.end - 1) :
              accepted(e[combined.array][i])) <=> combined.status = "Ok")

\* A compressed chunk with elements in all five arrays, points outside the
\* prime-order subgroup and points of negative y among them, decompressed
\* unchecked into a buffer used before and read back.
DecompressedAndReadBack ==
  /\ pc = "read"
  /\ args.prior = "Stale"
  /\ args.check = "No"
  /\ Len0(history.elements.tau_g2) > 1
  /\ Len0(history.elements.tau_g1) > Len0(history.elements.tau_g2)
  /\ \E i \in DOMAIN history.elements.tau_g1 :
       /\ i > 0
       /\ history.elements.tau_g1[i] # StalePoint
       /\ coord_y(history.elements.tau_g1[i]) < 0
       /\ ~in_prime_order_subgroup(history.elements.tau_g1[i])
       /\ combined.tau_g1[i] = history.elements.tau_g1[i]
  /\ 0 \in DOMAIN response.buffer.bytes

\* A chunk past powers_length decompressed: no tauG2, alphaG1 or betaG1
\* elements, and the output holds the tauG1 elements and betaG2.
ChunkWithoutOthersDecompressed ==
  /\ pc = "decompressed"
  /\ response.status = "Ok"
  /\ args.prior = "Zero"
  /\ Len0(history.elements.tau_g2) = 0
  /\ Len0(history.elements.tau_g1) > 1
  /\ Cardinality(DOMAIN response.buffer.bytes) = Len0(history.elements.tau_g1) + 1

\* A range that starts after the first element decompressed by
\* decompress_buffer.
InnerRangeDecompressed ==
  /\ pc = "range"
  /\ combined.status = "Ok"
  /\ combined.start > 0
  /\ combined.end > combined.start + 1
  /\ combined.end < Len0(history.elements[combined.array])

\* ------------------------------------- what the verification depends on
\* The output with every point replaced by a fixed point of the same kind:
\* the generator where the point is a non-zero point of the prime-order
\* subgroup, the point at infinity where it is not.
ValidityOnly(buffer) ==
  LET v(p) == IF StoredPointOk(p) THEN G1One ELSE 0
  IN [tau_g1 |-> [i \in DOMAIN buffer.tau_g1 |-> v(buffer.tau_g1[i])],
      tau_g2 |-> [i \in DOMAIN buffer.tau_g2 |-> v(buffer.tau_g2[i])],
      alpha_g1 |-> [i \in DOMAIN buffer.alpha_g1 |-> v(buffer.alpha_g1[i])],
      beta_g1 |-> [i \in DOMAIN buffer.beta_g1 |-> v(buffer.beta_g1[i])],
      beta_g2 |-> v(buffer.beta_g2)]

\* Other inputs, public keys and digests a verifier can be handed.
OtherInputs ==
  {init(fresh_buffer(parameters), parameters), [challenge EXCEPT !.beta_g2 = 0]}

OtherDigests == {calculate_hash(challenge), calculate_hash(challenge) + 1}

OtherKeys ==
  {public_key(private_key, calculate_hash(challenge) + 1),
   public_key([tau |-> 2, alpha |-> 2, beta |-> 3], calculate_hash(challenge))}

\* C21: in Full mode or for chunk_index = 0 verify_pok_and_correctness
\* performs the proof-of-knowledge checks (a public key made for another
\* digest is refused with the first ratio error), the generator checks and
\* the before/after ratio checks (an accepted output starts with the
\* generators and its second elements have the key's ratio to the input's);
\* in Chunked mode with chunk_index > 0 the result is Ok or a panic, is the
\* same for every input, public key, digest and flag, and is the result for
\* the output that only keeps which of its points are non-zero points of
\* the prime-order subgroup.
FirstChunkChecksOnly ==
  pc = "verified" =>
    LET digest == calculate_hash(challenge)
        key == public_key(private_key, digest)
        forged == public_key(private_key, digest + 1)
        g2_s == compute_g2_s_key(key, digest)
        out == response.buffer
    IN IF parameters.contribution_mode = "Full" \/ parameters.chunk_index = 0
       THEN /\ \A ci \in CheckForCorrectness, co \in CheckForCorrectness :
                 verify_pok_and_correctness(challenge, ci, out, co, forged,
                                            digest, parameters)
                   = "Err(InvalidRatio(Tau G1<>G2))"
            /\ verdict = "Ok" =>
                 /\ out.tau_g1[0] = G1One
                 /\ out.tau_g2[0] = G2One
                 /\ check_same_ratio(<<challenge.tau_g1[1], out.tau_g1[1]>>,
                                     <<g2_s[1], key.tau_g2>>)
                 /\ check_same_ratio(key.tau_g1,
                                     <<challenge.tau_g2[1], out.tau_g2[1]>>)
                 /\ check_same_ratio(<<challenge.alpha_g1[0], out.alpha_g1[0]>>,
                                     <<g2_s[2], key.alpha_g2>>)
                 /\ check_same_ratio(<<challenge.beta_g1[0], out.beta_g1[0]>>,
                                     <<g2_s[3], key.beta_g2>>)
                 /\ check_same_ratio(key.beta_g1,
                                     <<challenge.beta_g2, out.beta_g2>>)
       ELSE /\ verdict \in {"Ok", "Panic"}
            /\ \A input \in OtherInputs, k \in OtherKeys, d \in OtherDigests,
                  check \in CheckForCorrectness :
                 /\ verify_pok_and_correctness(input, check, out, check, k, d,
                                               parameters) = verdict
                 /\ verify_pok_and_correctness(input, check, ValidityOnly(out),
                                               check, k, d, parameters) = verdict

\* A later chunk whose output was tampered with into another point of the
\* subgroup, with a betaG2 that is not the input's times beta: it is
\* accepted, and is accepted with a public key made for another digest.
LaterChunkAcceptedWithoutPok ==
  /\ pc = "verified"
  /\ verdict = "Ok"
  /\ parameters.contribution_mode = "Chunked"
  /\ parameters.chunk_index > 0
  /\ Len0(response.buffer.tau_g2) > 0
  /\ response.buffer # contribute(challenge, "No", fresh_buffer(parameters),
                                  private_key, parameters).buffer
  /\ verify_pok_and_correctness(
       challenge, "Both", response.buffer, "Both",
       public_key(private_key, calculate_hash(challenge) + 1),
       calculate_hash(challenge), parameters) = "Ok"

\* A first chunk accepted: the checks of the first chunk were passed.
FirstChunkAccepted ==
  /\ pc = "verified"
  /\ verdict = "Ok"
  /\ parameters.contribution_mode = "Chunked"
  /\ parameters.chunk_index = 0
  /\ private_key.tau # 1

\* ------------------------------------------------ betaG2 of the combination
\* Two byte ranges <<lo, hi>> with no byte in common.
Apart(r, q) == r[2] <= q[1] \/ q[2] <= r[1] \/ r[1] = r[2] \/ q[1] = q[2]

\* C22: after a combine that completes, betaG2 of the output is betaG2 of
\* the input of chunk 0, whatever betaG2 the inputs of the other chunks
\* carry; the step of a chunk of index > 0 leaves the betaG2 it finds in the
\* output, and none of the byte ranges it writes meets the betaG2 range.
BetaG2OfChunkZero ==
  (pc = "combined" /\ combined.status = "Ok") =>
    /\ combined.buffer.beta_g2 = responses[1].beta_g2
    /\ \A j \in 2..Len(responses) :
         /\ \A p \in {0, 3, 7, Unwritten} :
              combine([responses EXCEPT ![j].beta_g2 = p],
                      fresh_full_buffer(parameters), parameters) = combined
         /\ \A p \in {Unwritten, 2} :
              combine_chunk(parameters, responses[j],
                            [status |-> "Ok",
                             buffer |-> [combined.buffer EXCEPT !.beta_g2 = p]],
                            j - 1).buffer.beta_g2 = p
         /\ \A c \in CurveNames, compressed \in UseCompression :
              LET curve == CurveParams(c)
                  len == descriptor_length(FullMode(parameters), curve,
                                           compressed)
                  chunk_parameters ==
                    specialize_to_chunk(parameters, parameters.contribution_mode,
                                        j - 1, parameters.chunk_size)
                  r == split_at_chunk_mut(len, chunk_parameters, curve,
                                          compressed)
              IN /\ ~r.panic
                 /\ r.beta_g2[2] <= len
                 /\ Apart(r.tau_g1, r.beta_g2)
                 /\ Apart(r.tau_g2, r.beta_g2)
                 /\ Apart(r.alpha_g1, r.beta_g2)
                 /\ Apart(r.beta_g1, r.beta_g2)

\* Every chunk of a ceremony of three chunks or more combined, the last
\* chunk past powers_length: betaG2 of the output is that of chunk 0, the
\* initial betaG2 times beta.
AllChunksCombinedBetaG2 ==
  /\ pc = "combined"
  /\ combined.status = "Ok"
  /\ Len(responses) >= 3
  /\ Len(responses) = NumChunks(parameters)
  /\ Len0(responses[Len(responses)].tau_g2) = 0
  /\ private_key.beta # 1
  /\ combined.buffer.beta_g2 = Mul(challenge.beta_g2, private_key.beta)
  /\ combined.buffer.beta_g2 # challenge.beta_g2

\* ------------------------------------------------ the writes of the tasks
\* The byte range of the output each task of an operation writes:
\* [window, array, lo, hi, size, panic], window being the place of the
\* task's window (or chunk) in the order of the loop, 0 for what is written
\* before the loop, size the element size, and panic set when the range
\* leaves the slice the task was given.
ArraySize(curve, compressed, array) ==
  IF array \in {"tau_g2", "beta_g2"} THEN g2_size(curve, compressed)
  ELSE g1_size(curve, compressed)

\* Mutant: every task of a window is given the tauG1 slice.
contribute_tasks_in_one_slice(params, curve, compressed) ==
  LET r == split_mut(descriptor_length(params, curve, compressed), params,
                     curve, compressed)
      w == iter_chunk_windows(params)
      task(j, array, end) ==
        LET size == ArraySize(curve, compressed, array)
            lo == r.tau_g1[1] + to_chunk(params, w[j][1]) * size
            hi == r.tau_g1[1] + to_chunk(params, end) * size
        IN [window |-> j, array |-> array, lo |-> lo, hi |-> hi,
            size |-> size, panic |-> lo > hi \/ hi > r.tau_g1[2]]
  IN {[window |-> 0, array |-> "beta_g2", lo |-> r.beta_g2[1],
       hi |-> r.beta_g2[2], size |-> ArraySize(curve, compressed, "beta_g2"),
       panic |-> r.panic]}
     \cup {task(j, "tau_g1", w[j][2]) : j \in 1..Len(w)}
     \cup {task(j, a, other_end(params, w[j][1], w[j][2])) :
             j \in {i \in 1..Len(w) : w[i][1] < params.powers_length},
             a \in {"tau_g2", "alpha_g1", "beta_g1"}}

\* contribute: betaG2, then for each window of iter_chunk a task on tauG1
\* and, for a window that starts below powers_length, a task on each of
\* tauG2, alphaG1 and betaG1.
contribute_tasks(params, curve, compressed) ==
  LET r == split_mut(descriptor_length(params, curve, compressed), params,
                     curve, compressed)
      w == iter_chunk_windows(params)
      task(j, array, end) ==
        LET size == ArraySize(curve, compressed, array)
            lo == r[array][1] + to_chunk(params, w[j][1]) * size
            hi == r[array][1] + to_chunk(params, end) * size
        IN [window |-> j, array |-> array, lo |-> lo, hi |-> hi,
            size |-> size, panic |-> lo > hi \/ hi > r[array][2]]
  IN {[window |-> 0, array |-> "beta_g2", lo |-> r.beta_g2[1],
       hi |-> r.beta_g2[2], size |-> ArraySize(curve, compressed, "beta_g2"),
       panic |-> r.panic]}
     \cup {task(j, "tau_g1", w[j][2]) : j \in 1..Len(w)}
     \cup {task(j, a, other_end(params, w[j][1], w[j][2])) :
             j \in {i \in 1..Len(w) : w[i][1] < params.powers_length},
             a \in {"tau_g2", "alpha_g1", "beta_g1"}}

\* The tasks of the five ranges r of one window, those of the arrays given.
range_tasks(r, window, arrays, curve, compressed) ==
  {[window |-> window, array |-> a, lo |-> r[a][1], hi |-> r[a][2],
    size |-> ArraySize(curve, compressed, a), panic |-> r.panic] :
     a \in arrays}

\* init: one task for each of the five slices of split_mut.
init_tasks(params, curve, compressed) ==
  range_tasks(split_mut(descriptor_length(params, curve, compressed), params,
                        curve, compressed),
              1, {"tau_g1", "tau_g2", "alpha_g1", "beta_g1", "beta_g2"},
              curve, compressed)

\* decompress: betaG2, then a task on tauG1 and, when the chunk holds other
\* elements, a task on each of tauG2, alphaG1 and betaG1, on the slices of
\* split_mut of the uncompressed output.
decompress_tasks(params, curve) ==
  LET r == split_mut(descriptor_length(params, curve, "No"), params, curve,
                     "No")
  IN range_tasks(r, 0, {"beta_g2"}, curve, "No")
     \cup range_tasks(r, 1,
            IF params_chunk_element_sizes(params)[2] > 0
            THEN {"tau_g1", "tau_g2", "alpha_g1", "beta_g1"}
            ELSE {"tau_g1"}, curve, "No")

\* combine of n inputs: for chunk k a task on tauG1, for a chunk that starts
\* below powers_length a task on each of tauG2, alphaG1 and betaG1, and for
\* chunk 0 the write of betaG2, on the slices of split_at_chunk_mut.
combine_tasks(params, n, curve, compressed) ==
  LET len == descriptor_length(FullMode(params), curve, compressed)
      of(k) ==
        LET chunk_parameters ==
              specialize_to_chunk(params, params.contribution_mode, k,
                                  params.chunk_size)
            r == split_at_chunk_mut(len, chunk_parameters, curve, compressed)
        IN range_tasks(r, k + 1,
             {"tau_g1"}
             \cup (IF k * chunk_parameters.chunk_size
                        < chunk_parameters.powers_length
                   THEN {"tau_g2", "alpha_g1", "beta_g1"} ELSE {})
             \cup (IF k = 0 THEN {"beta_g2"} ELSE {}),
             curve, compressed)
  IN UNION {of(k) : k \in 0..(n - 1)}

InitTasks ==
  /\ parameters \in Descriptors
  /\ args \in [curve : CurveNames, compressed : UseCompression]
  /\ challenge = None
  /\ private_key = Identity
  /\ response = None
  /\ verdict = "None"
  /\ history = None
  /\ responses = <<>>
  /\ combined = None
  /\ result = None
  /\ pc = "call"

\* One call of an operation on an output of the descriptor's length.
InitCall ==
  /\ pc = "call"
  /\ result' = [op |-> "init",
                tasks |-> init_tasks(parameters, CurveParams(args.curve),
                                     args.compressed)]
  /\ pc' = "done"
  /\ UNCHANGED <<args, ceremony_vars>>

ContributeCall ==
  /\ pc = "call"
  /\ result' = [op |-> "contribute",
                tasks |-> contribute_tasks(parameters, CurveParams(args.curve),
                                           args.compressed)]
  /\ pc' = "done"
  /\ UNCHANGED <<args, ceremony_vars>>

DecompressCall ==
  /\ pc = "call"
  /\ args.compressed = "No"
  /\ result' = [op |-> "decompress",
                tasks |-> decompress_tasks(parameters, CurveParams(args.curve))]
  /\ pc' = "done"
  /\ UNCHANGED <<args, ceremony_vars>>

CombineCall ==
  /\ pc = "call"
  /\ parameters.contribution_mode = "Chunked"
  /\ parameters.chunk_index = 0
  /\ \E n \in 1..NumChunks(parameters) :
       result' = [op |-> "combine",
                  tasks |-> combine_tasks(parameters, n,
                                          CurveParams(args.curve),
                                          args.compressed)]
  /\ pc' = "done"
  /\ UNCHANGED <<args, ceremony_vars>>

NextTasks == InitCall \/ ContributeCall \/ DecompressCall \/ CombineCall

SpecTasks == InitTasks /\ [][NextTasks]_vars

\* The tasks that write: those whose range lies in their slice, of the
\* windows up to the first one in which a task panics.
WritingTasks ==
  LET failed == {t.window : t \in {u \in result.tasks : u.panic}}
  IN {t \in result.tasks :
        ~t.panic /\ \A f \in failed : t.window <= f}

\* The bytes two tasks both write.
Shared(t, u) ==
  LET lo == IF t.lo > u.lo THEN t.lo ELSE u.lo
      hi == Min(t.hi, u.hi)
  IN IF hi > lo THEN hi - lo ELSE 0

CombineCallOfThreeChunks ==
  /\ pc = "done"
  /\ result.op = "combine"
  /\ \E t \in WritingTasks : t.window >= 3

\* -------------------------------------------------- iter_chunk, step by step
\* Mutant: the iterator is driven to its end whatever the results.
iter_chunk_continues_after_failure(outcomes) ==
  \A j \in 1..Len(outcomes) : outcomes[j].status \in {"Ok", "Err", "Panic"}

\* iter_chunk maps the action over the windows and collects the results
\* into one Result: the iterator is driven as long as every result so far
\* is Ok.  A panic of the action unwinds through the loop.
iter_chunk_continues(outcomes) ==
  \A j \in 1..Len(outcomes) : outcomes[j].status = "Ok"

\* What iter_chunk hands its caller: Ok, or the first failure.
iter_chunk_result(outcomes) ==
  IF iter_chunk_continues(outcomes) THEN "Ok"
  ELSE outcomes[CHOOSE j \in 1..Len(outcomes) :
                  /\ outcomes[j].status # "Ok"
                  /\ \A i \in 1..(j - 1) : outcomes[i].status = "Ok"].status

PhaseOneOperations == {"contribute", "verify_pok_and_correctness"}

\* The operation is given an accumulator in which up to two elements of
\* tauG1 are the point at infinity, which a checked read refuses and the
\* verification rejects.
InitIterChunk ==
  /\ parameters \in Descriptors
  /\ args \in [op : PhaseOneOperations]
  /\ \E bad \in SUBSET (0..(params_chunk_element_sizes(parameters)[1] - 1)) :
       /\ Cardinality(bad) <= 2
       /\ challenge =
            [well_formed(parameters, [tau |-> 3, alpha |-> 4, beta |-> 2])
               EXCEPT !.tau_g1 = [i \in DOMAIN @ |-> IF i \in bad THEN 0 ELSE @[i]]]
  /\ private_key = [tau |-> 2, alpha |-> 3, beta |-> 4]
  /\ response = [status |-> "Ok",
                 buffer |-> [fresh_buffer(parameters) EXCEPT
                               !.beta_g2 = Mul(2, 4)]]
  /\ verdict = "None"
  /\ history = [outcomes |-> <<>>]
  /\ responses = <<>>
  /\ combined = None
  /\ result = None
  /\ pc = "iterating"

\* The next window of iter_chunk: the action of the operation is invoked
\* on it, and its failure ends the loop.
InvokeAction ==
  /\ pc = "iterating"
  /\ Len(history.outcomes) < Len(iter_chunk_windows(parameters))
  /\ LET w == iter_chunk_windows(parameters)[Len(history.outcomes) + 1]
         r == IF args.op = "contribute"
              THEN contribute_window(parameters, private_key, challenge,
                                     "Both", response, w[1], w[2])
              ELSE [status |-> IF verify_window(parameters, challenge,
                                                w[1], w[2])
                               THEN "Ok" ELSE "Panic",
                    buffer |-> response.buffer]
         outcomes == Append(history.outcomes,
                            [window |-> w, status |-> r.status])
     IN /\ response' = r
        /\ history' = [outcomes |-> outcomes]
        /\ IF iter_chunk_continues(outcomes)
           THEN UNCHANGED <<pc, verdict>>
           ELSE pc' = "returned" /\ verdict' = iter_chunk_result(outcomes)
  /\ UNCHANGED <<parameters, challenge, private_key, responses, combined>>
  /\ UNCHANGED descriptor_vars

\* No window is left: iter_chunk returns what it collected.
ReturnFromIterChunk ==
  /\ pc = "iterating"
  /\ Len(history.outcomes) = Len(iter_chunk_windows(parameters))
  /\ verdict' = iter_chunk_result(history.outcomes)
  /\ pc' = "returned"
  /\ UNCHANGED <<parameters, challenge, private_key, response, history,
                 responses, combined>>
  /\ UNCHANGED descriptor_vars

NextIterChunk == InvokeAction \/ ReturnFromIterChunk

SpecIterChunk == InitIterChunk /\ [][NextIterChunk]_vars

\* C24: the windows the action was invoked on are the first windows of
\* iter_chunk, in their order of increasing start; every one before the
\* last invoked completed; once one fails no later window is invoked, and
\* the operation ends with that first failure, which is what contribute
\* hands its caller; it ends Ok only after every window completed.
FailFast ==
  LET w == iter_chunk_windows(parameters)
      o == history.outcomes
  IN /\ Len(o) <= Len(w)
     /\ \A j \in 1..Len(o) : o[j].window = w[j]
     /\ \A j \in 1..(Len(o) - 1) :
          /\ o[j].status = "Ok"
          /\ o[j].window[1] < o[j + 1].window[1]
     /\ pc = "returned" =>
          /\ verdict = "Ok" <=>
               (Len(o) = Len(w) /\ \A j \in 1..Len(o) : o[j].status = "Ok")
          /\ verdict # "Ok" => verdict = o[Len(o)].status
          /\ args.op = "contribute" =>
               response = contribute(challenge, "Both",
                                     fresh_buffer(parameters), private_key,
                                     parameters)
          /\ args.op = "verify_pok_and_correctness" =>
               (verdict = "Ok" <=>
                  \A j \in 1..Len(w) :
                    verify_window(parameters, challenge, w[j][1], w[j][2]))

\* A contribute that failed in a window that is neither the first nor the
\* last, with an element a later window would fail on too: the later
\* windows were not invoked.
FailedInTheMiddle ==
  /\ pc = "returned"
  /\ args.op = "contribute"
  /\ verdict = "Panic"
  /\ Len(history.outcomes) >= 2
  /\ Len(history.outcomes) + 2 <= Len(iter_chunk_windows(parameters))
  /\ LET w == iter_chunk_windows(parameters)
     IN \E j \in (Len(history.outcomes) + 2)..Len(w) :
          \E i \in w[j][1]..(w[j][2] - 1) :
            challenge.tau_g1[to_chunk(parameters, i)] = 0

\* ------------------------------------------------ the phase-2 combine command
\* Mutant: the combined file is written before the verification.
Phase2CombineStepsWritingFirst ==
  <<"read_full", "read_query", "read_responses", "combine", "write_combined",
    "verify", "write_params", "done">>

\* The steps of the command, in the order of its statements.  Each of them
\* expects its result: a failure is a panic that ends the command there.
Phase2CombineSteps ==
  <<"read_full", "read_query", "read_responses", "combine", "verify",
    "write_combined", "write_params", "done">>

\* The step after the step the command is at.
StepAfter(step) ==
  Phase2CombineSteps[1 + CHOOSE i \in 1..(Len(Phase2CombineSteps) - 1) :
                           Phase2CombineSteps[i] = step]

\* A file handed to the command: readable parameters, parameters whose
\* contribution does not verify, or a file that is not there or does not
\* parse.
Phase2FileKinds == {"Valid", "Unverifiable", "Unreadable"}

InitPhase2Combine ==
  /\ args \in [full : {"Valid", "Unreadable"}, query : {"Valid", "Unreadable"},
               combinable : BOOLEAN]
  /\ \E n \in 0..MaxFiles : responses \in [1..n -> Phase2FileKinds]
  /\ result = [read |-> 0, combined |-> "None", hashes |-> Unwritten,
               combined_file |-> "Absent", params_file |-> "Absent"]
  /\ parameters = None
  /\ challenge = None
  /\ private_key = Identity
  /\ response = None
  /\ verdict = "None"
  /\ history = None
  /\ combined = None
  /\ pc = "read_full"

\* MPCParameters::read_fast of the initial full parameters.
ReadFullParameters ==
  /\ pc = "read_full"
  /\ pc' = IF args.full = "Valid" THEN StepAfter(pc) ELSE "panic"
  /\ UNCHANGED <<args, result, ceremony_vars>>

\* MPCParameters::read_groth16_fast of the initial query.
ReadInitialQuery ==
  /\ pc = "read_query"
  /\ pc' = IF args.query = "Valid" THEN StepAfter(pc) ELSE "panic"
  /\ UNCHANGED <<args, result, ceremony_vars>>

\* One turn of the loop over the lines of the response list.
ReadResponse ==
  /\ pc = "read_responses"
  /\ IF result.read = Len(responses)
     THEN pc' = StepAfter(pc) /\ UNCHANGED result
     ELSE IF responses[result.read + 1] = "Unreadable"
     THEN pc' = "panic" /\ UNCHANGED result
     ELSE pc' = pc /\ result' = [result EXCEPT !.read = @ + 1]
  /\ UNCHANGED <<args, ceremony_vars>>

\* MPCParameters::combine of the query and the responses read.
CombineParameters ==
  /\ pc = "combine"
  /\ IF args.combinable
     THEN pc' = StepAfter(pc) /\ result' = [result EXCEPT !.combined = "Combined"]
     ELSE pc' = "panic" /\ UNCHANGED result
  /\ UNCHANGED <<args, ceremony_vars>>

\* full_parameters.verify(&combined): the contribution hashes, one for each
\* response, or an error.
VerifyCombined ==
  /\ pc = "verify"
  /\ IF \A i \in 1..Len(responses) : responses[i] = "Valid"
     THEN pc' = StepAfter(pc)
          /\ result' = [result EXCEPT !.hashes = Len(responses)]
     ELSE pc' = "panic" /\ UNCHANGED result
  /\ UNCHANGED <<args, ceremony_vars>>

\* The combined parameters are written to the combined file.
WriteCombined ==
  /\ pc = "write_combined"
  /\ result' = [result EXCEPT !.combined_file = "Written"]
  /\ pc' = StepAfter(pc)
  /\ UNCHANGED <<args, ceremony_vars>>

\* combined.params is written to the '.params' file.
WriteParams ==
  /\ pc = "write_params"
  /\ result' = [result EXCEPT !.params_file = "Written"]
  /\ pc' = StepAfter(pc)
  /\ UNCHANGED <<args, ceremony_vars>>

NextPhase2Combine ==
  \/ ReadFullParameters
  \/ ReadInitialQuery
  \/ ReadResponse
  \/ CombineParameters
  \/ VerifyCombined
  \/ WriteCombined
  \/ WriteParams

SpecPhase2Combine == InitPhase2Combine /\ [][NextPhase2Combine]_vars

\* C25: the combined file and the '.params' file are written only after
\* the verification of the combined parameters succeeded and returned the
\* contribution hashes, the combined file first; after a failure of a read,
\* of the combination or of the verification neither file is written.
FilesWrittenOnlyAfterVerification ==
  /\ (result.combined_file = "Written" \/ result.params_file = "Written") =>
       /\ result.hashes = Len(responses)
       /\ result.combined = "Combined"
       /\ result.read = Len(responses)
       /\ \A i \in 1..Len(responses) : responses[i] = "Valid"
       /\ args.full = "Valid" /\ args.query = "Valid" /\ args.combinable
  /\ result.params_file = "Written" => result.combined_file = "Written"
  /\ pc = "panic" =>
       (result.combined_file = "Absent" /\ result.params_file = "Absent")
  /\ pc = "done" =>
       (result.combined_file = "Written" /\ result.params_file = "Written")

\* Two responses combined and verified, both files written.
BothFilesWritten ==
  /\ pc = "done"
  /\ Len(responses) >= 2
  /\ result.hashes = Len(responses)
  /\ result.combined_file = "Written"
  /\ result.params_file = "Written"

\* The verification of the combination of three responses failed on the
\* last one: no file.
VerificationFailedNoFile ==
  /\ pc = "panic"
  /\ result.combined = "Combined"
  /\ Len(responses) = 3
  /\ responses[3] = "Unverifiable"
  /\ result.combined_file = "Absent"

\* ------------------------------------------------- the windows of iter_chunk
\* (min..max).chunks(n): the groups of n successive indices, the last one
\* holding what is left.
chunks(min, max, n) ==
  LET count == IF max <= min THEN 0 ELSE ((max - min) + n - 1) \div n
  IN [j \in 1..count |-> (min + (j - 1) * n)..(Min(min + j * n, max) - 1)]

\* chunk.minmax()
minmax(chunk) ==
  IF chunk = {} THEN <<"NoElements">>
  ELSE LET lo == CHOOSE x \in chunk : \A y \in chunk : x <= y
           hi == CHOOSE x \in chunk : \A y \in chunk : x >= y
       IN IF lo = hi THEN <<"OneElement", lo>> ELSE <<"MinMax", lo, hi>>

\* Mutant: every window is widened by one index, the last one too.
iter_chunk_window_always_widened(mm, max) ==
  IF mm[1] = "MinMax" THEN <<mm[2], mm[3] + 2>>
  ELSE IF mm[1] = "OneElement" THEN <<mm[2], mm[2] + 2>>
  ELSE "InvalidChunk"

\* The match on chunk.minmax() in iter_chunk: the window <<start, end>> of
\* a group, or the error of the remaining arm.
iter_chunk_window(mm, max) ==
  IF mm[1] = "MinMax"
  THEN <<mm[2], IF mm[3] >= max - 1 THEN mm[3] + 1 ELSE mm[3] + 2>>
  ELSE IF mm[1] = "OneElement"
  THEN <<mm[2], IF mm[2] >= max - 1 THEN mm[2] + 1 ELSE mm[2] + 2>>
  ELSE "InvalidChunk"

\* C26: with a batch size of at least 2, the windows of iter_chunk over a
\* non-empty range [min, max) start at min, each next window starts at the
\* last index of the one before it, the last window ends at max and every
\* window holds between 1 and batch_size indices; no group of the range
\* reaches the InvalidChunk arm; over an empty range the action is invoked
\* zero times and the result is Ok.
WindowsChainFromMinToMax ==
  (pc = "done" /\ result.op = "iter_chunk" /\ args.batch_size >= 2) =>
    LET p == result.parameters
        min == iter_chunk_range(p)[1]
        max == iter_chunk_range(p)[2]
        groups == chunks(min, max, p.batch_size - 1)
        W == [j \in 1..Len(groups) |-> iter_chunk_window(minmax(groups[j]), max)]
    IN /\ result.status = "Ok"
       /\ result.value = W
       /\ \A j \in 1..Len(W) : W[j] # "InvalidChunk"
       /\ max <= min => Len(W) = 0
       /\ max > min =>
            /\ Len(W) >= 1
            /\ W[1][1] = min
            /\ W[Len(W)][2] = max
            /\ \A j \in 1..(Len(W) - 1) : W[j + 1][1] = W[j][2] - 1
            /\ \A j \in 1..(Len(W) - 1) :
                 (W[j][1]..(W[j][2] - 1)) \cap (W[j + 1][1]..(W[j + 1][2] - 1))
                   = {W[j + 1][1]}
            /\ \A j \in 1..Len(W) :
                 /\ 1 <= W[j][2] - W[j][1]
                 /\ W[j][2] - W[j][1] <= p.batch_size

\* A chunk walked in three windows.
ThreeWindowsInAChunk ==
  /\ pc = "done"
  /\ result.op = "iter_chunk"
  /\ result.parameters.contribution_mode = "Chunked"
  /\ args.batch_size = 2
  /\ Len(result.value) = 3
  /\ result.value[2][2] = result.value[3][2]
  /\ result.value[3][2] - result.value[3][1] = 1

\* A chunk that starts past the last index: no window, Ok.
EmptyRangeWalked ==
  /\ pc = "done"
  /\ result.op = "iter_chunk"
  /\ result.parameters.contribution_mode = "Chunked"
  /\ args.batch_size >= 2
  /\ iter_chunk_range(result.parameters)[1] > iter_chunk_range(result.parameters)[2]
  /\ result.status = "Ok"
  /\ result.value = <<>>

\* C27 (as stated): in Chunked mode, for every window of iter_chunk that
\* starts below powers_length, the end index contribute and
\* verify_pok_and_correctness use for tauG2, alphaG1 and betaG1 is at most
\* min((chunk_index + 1) * chunk_size, powers_length), so the range relative
\* to the chunk stays within the chunk's other elements.
OtherEndWithinChunk ==
  (/\ pc = "done"
   /\ result.op = "iter_chunk"
   /\ args.batch_size >= 2
   /\ result.parameters.contribution_mode = "Chunked") =>
    LET p == result.parameters
        W == result.value
        other_in_chunk == params_chunk_element_sizes(p)[2]
    IN \A j \in 1..Len(W) :
         W[j][1] < p.powers_length =>
           LET end == other_end(p, W[j][1], W[j][2])
           IN /\ end <= Min((p.chunk_index + 1) * p.chunk_size, p.powers_length)
              /\ to_chunk(p, end) <= other_in_chunk

\* C28 (as stated): the descriptor specialize_to_chunk(k) returns is the
\* descriptor built for chunk k with the same curve, power and batch size;
\* its accumulator_size and contribution_size are those of chunk k.
SpecializeEqualsDirectDescriptor ==
  (pc = "done" /\ result.op = "new_with_curve") =>
    \A k \in 0..MaxChunkIndex :
      LET specialized == specialize_to_chunk_index(result.value, k)
          direct == new_with_curve(k, CurveParams(args.curve), args.size,
                                   args.batch_size)
      IN /\ specialized.accumulator_size = direct.accumulator_size
         /\ specialized.contribution_size = direct.contribution_size
         /\ specialized = direct

\* ------------------------------------------ the length transform_ratios asks
\* Mutant: the digest is not subtracted in Chunked mode.
expected_response_length_with_hash(params, curve) ==
  new_with_curve(0, curve, params.size, params.powers_g1_length).accumulator_size

\* transform_ratios: the length the response file must have, computed from
\* the descriptor of chunk 0 whose chunk spans powers_g1_length elements.
expected_response_length(params, curve) ==
  LET chunk_zero == new_with_curve(0, curve, params.size, params.powers_g1_length)
  IN IF params.contribution_mode = "Chunked"
     THEN usize_sub(chunk_zero.accumulator_size, chunk_zero.hash_size)
     ELSE chunk_zero.accumulator_size

\* The descriptors of the ceremony the command runs in, as the powersoftau
\* binary builds them for one of its commands.
DescriptorsOfCommand(mode) ==
  {CeremonyParams(mode, k, c, args.size, args.batch_size) :
     k \in 0..MaxChunkIndex, c \in 1..MaxChunkSize}

\* C29: the length combine gives the combined file is the length
\* transform_ratios requires of a response file in Chunked mode, and every
\* byte range of the full view, taken after the 64 bytes of the digest,
\* lies within that length.
CombinedFileHasLengthOfTransformRatios ==
  pc = "combined" =>
    \A p \in DescriptorsOfCommand("Chunked") :
      LET curve == CurveParams(args.curve)
          view == split_full(result.output_len, p, curve, "No")
      IN /\ result.output_len = expected_response_length(p, curve)
         /\ result.output_len = combined_file_length(p, curve)
         /\ ~view.panic
         /\ view.tau_g1[1] = 64
         /\ \A r \in {view.tau_g1, view.tau_g2, view.alpha_g1, view.beta_g1,
                      view.beta_g2} :
              64 <= r[1] /\ r[1] <= r[2] /\ r[2] <= result.output_len

\* The combined file of a ceremony of three chunks has been created.
CombinedFileOfThreeChunksCreated ==
  /\ pc = "combined"
  /\ Len(args.files) = 3
  /\ args.size = MaxPower
  /\ result.output = "Created"
  /\ result.output_len > 64

\* The descriptor with another batch size.
WithBatchSize(p, b) == [p EXCEPT !.batch_size = b]

\* C30 (as stated): the output of contribute does not depend on the batch
\* size: for the same input, key, mode and chunk, every batch size of at
\* least 2 gives the output the call gave.
ContributeIndependentOfBatchSize ==
  pc = "response" =>
    \A b \in 2..MaxBatchSize :
      \E check \in CheckForCorrectness :
        /\ response = contribute(challenge, check, fresh_buffer(parameters),
                                 private_key, parameters)
        /\ response = contribute(challenge, check,
                                 fresh_buffer(WithBatchSize(parameters, b)),
                                 private_key, WithBatchSize(parameters, b))

=============================================================================
